---------------------------- MODULE Spec2Model ----------------------------
(***************************************************************************)
(* Job / pipeline executor of shell-plus-plus (src/src/cmd-exec.cc).       *)
(*                                                                         *)
(* The shell process launches one Job of nproc pipeline stages             *)
(* (Job::LaunchJob), every forked child runs Process::LaunchProcess        *)
(* concurrently with the shell, and the shell then waits for the job       *)
(* (Job::WaitForJob), puts it in the foreground or in the background, and  *)
(* queries it.  The kernel side (process groups, the controlling terminal, *)
(* descriptor tables, wait statuses) is modelled as far as the code reads  *)
(* or writes it.                                                           *)
(*                                                                         *)
(* Declared classes and interfaces (src/src/objects/decl-class-object.cc): *)
(* AbstractMethod equality, the abstract methods of a class and the        *)
(* methods of an interface, the two compatibility checks and Constructor.  *)
(***************************************************************************)
EXTENDS Integers, Sequences, FiniteSets, TLC

\* ------------------------------------------------------------------ bounds
\* Longest pipeline that is launched.
MaxStages == 2
\* Most children of the shell that belong to an earlier background job.
MaxOthers == 1
\* Most calls the shell makes on the job after LaunchJob has returned.
MaxOps == 1
\* Size of a process's descriptor table.
NumFds == 9
\* Most parameters of a method signature that is compared.
MaxParams == 2
\* Most members (abstract methods, attributes, interface methods) that the
\* declarations of one run add to the declared types.
MaxMembers == 2

\* --------------------------------------------------------- program constants
STDIN_FILENO == 0
STDOUT_FILENO == 1
STDERR_FILENO == 2
\* pid_t of the shell itself; it leads its own process group (shell_pgid).
ShellPid == 1

\* Wait statuses as waitpid encodes them: exit code e is e * 256, a stop by
\* signal s is s * 256 + 127 (WIFSTOPPED: the low byte is 0x7f).
ExitOk == 0
ExitFail == 256
StopStatus == 5247
\* The wait status of exit(127).
ExitNotFound == 32512
WaitStatuses == {ExitOk, ExitFail, StopStatus}

\* struct termios values that are told apart.
ShellModes == "cooked"
TModes == {"cooked", "raw"}
\* A struct termios member that nothing has written yet.
Unset == "unset"

\* ----------------------------------------------------------------- helpers
RECURSIVE BitOr(_, _)
\* a | b on non-negative ints.
BitOr(a, b) ==
    IF a = 0 THEN b
    ELSE IF b = 0 THEN a
    ELSE (IF a % 2 = 1 \/ b % 2 = 1 THEN 1 ELSE 0) + 2 * BitOr(a \div 2, b \div 2)

\* WIFSTOPPED(status)
WIFSTOPPED(status) == status % 256 = 127

\* An open file description; NoFile marks a closed descriptor.
NoFile == [k |-> "none", n |-> 0]
StdFile(fd) == [k |-> "std", n |-> fd]
RedirFile(fd) == [k |-> "file", n |-> fd]
PipeRd(p) == [k |-> "rd", n |-> p]
PipeWr(p) == [k |-> "wr", n |-> p]

Fds == 0 .. (NumFds - 1)
FreeFds(t) == {fd \in Fds : t[fd] = NoFile}
LowestFree(t) == CHOOSE fd \in FreeFds(t) : \A g \in FreeFds(t) : fd <= g

\* close(fd)
Close(t, fd) == IF fd \in Fds THEN [t EXCEPT ![fd] = NoFile] ELSE t
\* dup2(old, new): new becomes a second name of old's description.
Dup2(t, old, new) ==
    IF old \in Fds /\ t[old] # NoFile THEN [t EXCEPT ![new] = t[old]] ELSE t

VARIABLES
    \* the shell's environment (EnvShell) and the arguments of the launch
    interactive,    \* shell_is_interactive()
    foreground,     \* the argument of LaunchJob
    nproc,          \* process_.size()
    cmd,            \* per stage, what args_[0] names (lines 100-108)
    \* the Job object
    process_,       \* [0..nproc-1 -> [pid_, completed_, stopped_, status_]]
    pgid_,
    status_,
    shell_tmodes_,  \* the job's saved terminal modes
    stdin_, stdout_, stderr_,
    \* the shell's control state and the locals of the running method
    pc,
    i,              \* loop index of LaunchJob
    infile, outfile, mypipe,
    pid,            \* local pid of LaunchJob
    cont,           \* argument of PutJobInForeground / PutJobInBackground
    ret,            \* where WaitForJob returns to
    w_pid, w_status,\* locals pid, status of WaitForJob
    fds,            \* the shell's descriptor table
    \* the kernel
    child,          \* the forked stages: state, status, group, descriptors
    other,          \* children of the shell that are not of this job
    nextPid, npipes,
    ttyPgrp,        \* foreground process group of shell_terminal
    ttyModes,       \* terminal modes of shell_terminal
    \* the calls made on the job, as the caller observes them
    opsLeft,
    lastCall,       \* the call that is running or returned last
    called,         \* what LaunchJob did after its loop
    statusRet,      \* the result of that call, when it is Status()
    contSent,       \* SIGCONTs that call has sent to the job's group
    \* the declared types (src/src/objects/decl-class-object.cc)
    ctype,          \* per class: abstract_, base, interfaces,
                    \* abstract_methods_ and the class's symbol table
    iface,          \* per interface: its base interfaces and methods_
    membersLeft,
    res,            \* the last call that returned or threw, and how it ended
    inst,           \* per declared object: its type and its own scope
    \* one comparison of two signatures
    cmpA, cmpB, cmpRes,
    \* the objects of an expression (src/src/interpreter/expr-executor.h)
    heap,           \* per object identity: its kind and its value
    handle,         \* per read of the identifier: the object it returned
    \* one scope (src/src/interpreter/scope-executor.h)
    defer_stack_,
    executed_defer_,
    scope,          \* where the scope is: running, left, and how it was left
    pushed,         \* the statements deferred, in the order of their defer
    ran             \* the deferred statements run, in the order they ran

typeVars == <<ctype, iface, membersLeft, res>>
cmpVars == <<cmpA, cmpB, cmpRes>>
objVars == <<inst>>
identVars == <<heap, handle>>
deferVars == <<defer_stack_, executed_defer_, scope, pushed, ran>>
execVars == <<identVars, deferVars>>
sideVars == <<cmpVars, objVars, execVars>>
envVars == <<interactive, foreground, nproc, cmd, typeVars, sideVars>>
jobVars == <<process_, pgid_, status_, shell_tmodes_, stdin_, stdout_, stderr_>>
launchLocals == <<i, infile, outfile, mypipe, pid>>
waitLocals == <<w_pid, w_status>>
callVars == <<opsLeft, lastCall, called, statusRet, contSent>>

vars == <<envVars, jobVars, launchLocals, waitLocals, callVars, pc, cont, ret,
          fds, child, other, nextPid, npipes, ttyPgrp, ttyModes>>

Stages == 0 .. (nproc - 1)
Others == DOMAIN other

EmptyTable == [fd \in Fds |-> NoFile]

\* The shell's descriptors before the launch: the three standard ones and,
\* in the order stdin, stdout, stderr, one opened file per redirection.
ShellTable(rin, rout, rerr) ==
    LET nin == IF rin THEN 1 ELSE 0
        nout == IF rout THEN 1 ELSE 0
    IN [fd \in Fds |->
          IF fd <= 2 THEN StdFile(fd)
          ELSE IF rin /\ fd = 3 THEN RedirFile(STDIN_FILENO)
          ELSE IF rout /\ fd = 3 + nin THEN RedirFile(STDOUT_FILENO)
          ELSE IF rerr /\ fd = 3 + nin + nout THEN RedirFile(STDERR_FILENO)
          ELSE NoFile]

NoChild == [st |-> "none", pid |-> 0, xs |-> 0, pgrp |-> 0, fds |-> EmptyTable,
            ain |-> 0, aout |-> 0, apgid |-> 0]

NewProcess == [pid_ |-> 0, completed_ |-> 0, stopped_ |-> 0, status_ |-> 0]

\* The state after the Job and its Processes are built: redirs are the
\* redirections (stdin, stdout, stderr) the command may carry, and the shell
\* has at most maxOthers children of an earlier background job.
\* What args_[0] of a stage can name: a builtin that LookupCmd finds, a
\* program that execvp finds, or nothing that either finds.
Outcomes == {"builtin", "exec", "notfound"}

JobInit(redirs, maxOthers, kinds) ==
    /\ interactive \in BOOLEAN
    /\ foreground \in BOOLEAN
    /\ nproc \in 1 .. MaxStages
    /\ cmd \in [0 .. (nproc - 1) -> kinds]
    /\ process_ = [s \in 0 .. (nproc - 1) |-> NewProcess]
    /\ pgid_ = 0
    /\ status_ = 0
    /\ shell_tmodes_ = Unset
    /\ \E <<rin, rout, rerr>> \in redirs :
         /\ stdin_ = IF rin THEN 3 ELSE STDIN_FILENO
         /\ stdout_ = IF rout THEN 3 + (IF rin THEN 1 ELSE 0) ELSE STDOUT_FILENO
         /\ stderr_ = IF rerr
                        THEN 3 + (IF rin THEN 1 ELSE 0) + (IF rout THEN 1 ELSE 0)
                        ELSE STDERR_FILENO
         /\ fds = ShellTable(rin, rout, rerr)
    /\ pc = "start"
    /\ i = 0
    /\ infile = -1
    /\ outfile = -1
    /\ mypipe = <<-1, -1>>
    /\ cont = 0
    /\ ret = "none"
    /\ pid = -1
    /\ w_pid = -1
    /\ w_status = 0
    /\ child = [s \in 0 .. (nproc - 1) |-> NoChild]
    /\ \E k \in 0 .. maxOthers :
         /\ other = [o \in 1 .. k |-> "running"]
         /\ nextPid = ShellPid + k + 1
    /\ npipes = 0
    /\ ttyPgrp = ShellPid
    /\ ttyModes = ShellModes
    /\ opsLeft = MaxOps
    /\ lastCall = "none"
    /\ called = "none"
    /\ statusRet = 0
    /\ contSent = 0

\* ------------------------------------------------------- declared types
\* AbstractMethod and FuncObject alike: num_params_, num_default_params_
\* (counted within num_params_) and variadic_.
Sig(np, nd, va) == [np |-> np, nd |-> nd, va |-> va]
Sigs == {s \in [np : 0 .. MaxParams, nd : 0 .. MaxParams, va : BOOLEAN] :
           s.nd <= s.np}
\* The signatures that the declarations of a run use.
SigSamples == {Sig(1, 0, TRUE), Sig(1, 1, TRUE), Sig(1, 1, FALSE)}

Names == {"f", "__init__"}
ClassIds == {"A", "B"}
IfaceIds == {"I", "J", "K"}
NoBase == "none"
NoMethods == [n \in {} |-> Sig(0, 0, FALSE)]

\* An entry of a class's symbol table: a function or some other object.
\* A function is declared (FuncDeclObject) or native; a declared one may be
\* static.
FuncAttr(sig) ==
    [type |-> "FUNC", sig |-> sig, declared |-> TRUE, static |-> FALSE]
OtherAttr ==
    [type |-> "INT", sig |-> Sig(0, 0, FALSE), declared |-> FALSE,
     static |-> FALSE]
\* What a lookup yields for a name that is in no table.
NoAttr ==
    [type |-> "missing", sig |-> Sig(0, 0, FALSE), declared |-> FALSE,
     static |-> FALSE]
NoAttrs == [n \in {} |-> OtherAttr]

\* A type that has not been declared yet.
NoClass == [made |-> FALSE, abstract_ |-> FALSE, base |-> NoBase,
            ifaces |-> <<>>, abstract_methods_ |-> NoMethods,
            attrs |-> NoAttrs]
NoIface == [made |-> FALSE, bases |-> <<>>, methods_ |-> NoMethods]

\* std::map::insert of a name that the map does not hold.
Insert(m, name, v) ==
    [n \in DOMAIN m \cup {name} |-> IF n = name THEN v ELSE m[n]]

\* The result of a call: the error thrown, the declared object allocated
\* and returned, and the calls of __init__ with their arguments.
Result(op, who, name, err) ==
    [op |-> op, who |-> who, name |-> name, err |-> err,
     alloc |-> 0, ret |-> "none", args |-> <<>>, calls |-> <<>>,
     initRet |-> "none", of |-> <<>>, self |-> "none", fret |-> "none"]
NoResult == Result("none", "none", "none", "none")
NoCmp == [done |-> FALSE, eqAm |-> FALSE, neAm |-> FALSE, eqFunc |-> FALSE,
          neFunc |-> FALSE, revAm |-> FALSE, revFunc |-> FALSE,
          selfAm |-> FALSE, selfFunc |-> FALSE]

\* A declared object that has not been constructed.
InstIds == {"x", "y"}
NoInst == [made |-> FALSE, cls |-> "none", tables |-> 0, scope |-> NoAttrs]

\* No type declared, no object constructed and no call made.
NoDecls ==
    /\ inst = [o \in InstIds |-> NoInst]
    /\ ctype = [c \in ClassIds |-> NoClass]
    /\ iface = [f \in IfaceIds |-> NoIface]
    /\ membersLeft = MaxMembers
    /\ res = NoResult

\* No comparison made.
NoCompare ==
    /\ cmpA = Sig(0, 0, FALSE)
    /\ cmpB = Sig(0, 0, FALSE)
    /\ cmpRes = NoCmp

\* A bound on the value of an object.
MaxVal == 2
\* The identities of objects: that of the object the symbol table binds to
\* the identifier, and one for the copy made by each read.
Bound == "v"
Slots == {"r1", "r2"}
ObjIds == {Bound} \cup Slots
NoObject == "none"
Free == [kind |-> "free", val |-> 0]
\* No identifier is bound and none has been read.
NoIdent ==
    /\ heap = [id \in ObjIds |-> Free]
    /\ handle = [s \in Slots |-> NoObject]

\* A bound on the number of statements a scope defers.
MaxDefers == 3
\* No scope has been entered.
NoDefer ==
    /\ defer_stack_ = <<>>
    /\ executed_defer_ = FALSE
    /\ scope = "none"
    /\ pushed = <<>>
    /\ ran = <<>>

NoExec == NoIdent /\ NoDefer

NoTypes == NoDecls /\ NoCompare /\ NoExec


\* A command without redirections, every stage of it a program that execvp
\* finds.
Init == JobInit({<<FALSE, FALSE, FALSE>>}, MaxOthers, {"exec"}) /\ NoTypes

\* Any combination of redirections and of builtins, programs and unknown
\* commands, and no other child.
InitLaunch == JobInit(BOOLEAN \X BOOLEAN \X BOOLEAN, 0, Outcomes) /\ NoTypes

\* The shell before it runs any command: what the declarations of types and
\* the comparisons of signatures start from.
NoJob ==
    /\ JobInit({<<FALSE, FALSE, FALSE>>}, 0, {"exec"})
    /\ ~interactive
    /\ ~foreground
    /\ nproc = 1

commandVars == <<interactive, foreground, nproc, cmd, jobVars, launchLocals,
                 waitLocals, callVars, pc, cont, ret, fds, child, other,
                 nextPid, npipes, ttyPgrp, ttyModes>>
shellVars == <<commandVars, execVars>>

\* ------------------------------------------------------------ kernel calls
\* A process group exists while a process that is not yet reaped is in it.
GroupExists(c, g) ==
    \/ g = ShellPid
    \/ \E s \in DOMAIN c : c[s].st \notin {"none", "reaped"} /\ c[s].pgrp = g

\* The child has not replaced its image (setpgid by the parent then fails
\* with EACCES) and is not a zombie.
BeforeExec(c, s) == c[s].st \in {"c_setpgid", "c_tcsetpgrp", "c_exec", "thrown"}

\* setpgid(pid of stage s, g): joining a group needs the group to exist.
SetPgid(c, s, g) ==
    IF g = c[s].pid \/ GroupExists(c, g)
      THEN [c EXCEPT ![s].pgrp = g]
      ELSE c

\* tcsetpgrp(shell_terminal, g), issued with SIGTTOU ignored or by the
\* foreground group: the new foreground group of the terminal.
TcSetPgrp(c, tty, g) == IF GroupExists(c, g) THEN g ELSE tty

\* kill(-g, SIGCONT): every stopped process of group g runs again.
Continue(c, g) ==
    [s \in DOMAIN c |->
       IF c[s].pgrp = g /\ c[s].st \in {"stopped_new", "stopped"}
         THEN [c[s] EXCEPT !.st = "running", !.xs = 0]
         ELSE c[s]]

\* -------------------------------------------------- Process::LaunchProcess
\* A child that ignores the group it was handed and leads a group of its own.
ChildPgid_OwnGroup(p) == p.pid

\* The group the child puts itself in (lines 63-69).
ChildPgid(p) == IF p.apgid = 0 THEN p.pid ELSE p.apgid

\* A child that leaves its standard error where the shell's is.
ChildStdio_NoStderr(t, in, out, err) ==
    LET t1 == IF in # STDIN_FILENO THEN Close(Dup2(t, in, STDIN_FILENO), in) ELSE t
    IN IF out # STDOUT_FILENO THEN Close(Dup2(t1, out, STDOUT_FILENO), out) ELSE t1

\* The child's descriptor table after lines 84-98.
ChildStdio(t, in, out, err) ==
    LET t1 == IF in # STDIN_FILENO THEN Close(Dup2(t, in, STDIN_FILENO), in) ELSE t
        t2 == IF out # STDOUT_FILENO THEN Close(Dup2(t1, out, STDOUT_FILENO), out) ELSE t1
        t3 == IF err # STDERR_FILENO THEN Close(Dup2(t2, err, STDERR_FILENO), err) ELSE t2
    IN t3

\* A child that goes on after a failed execvp as if the program ran.
Exec_NoThrow(c, s, how, err) ==
    [c EXCEPT ![s].fds = ChildStdio(c[s].fds, c[s].ain, c[s].aout, err),
              ![s].st = IF how = "builtin" THEN "zombie" ELSE "running",
              ![s].xs = ExitOk]

\* A child that runs the builtin and, with no exit(0), goes on to execvp,
\* which finds no program of that name.
Exec_NoExit(c, s, how, err) ==
    [c EXCEPT ![s].fds = ChildStdio(c[s].fds, c[s].ain, c[s].aout, err),
              ![s].st = IF how = "exec" THEN "running" ELSE "thrown",
              ![s].xs = ExitOk]

\* lines 75-112: default signal handling and the standard channels; then a
\* builtin runs and the child exits 0, or execvp replaces the image, or it
\* fails and INVALID_COMMAND is thrown.  Nothing here is seen by another
\* process before the outcome is, so the step that precedes it includes it.
Exec(c, s, how, err) ==
    [c EXCEPT ![s].fds = ChildStdio(c[s].fds, c[s].ain, c[s].aout, err),
              ![s].st = CASE how = "builtin" -> "zombie"
                          [] how = "exec" -> "running"
                          [] OTHER -> "thrown",
              ![s].xs = ExitOk]

\* lines 63-69: the child joins its group; a background child goes on to
\* line 75.
ChildSetpgid(s) ==
    /\ child[s].st = "c_setpgid"
    /\ LET c == SetPgid(child, s, ChildPgid(child[s]))
       IN IF foreground
            THEN child' = [c EXCEPT ![s].st = "c_tcsetpgrp"]
            ELSE child' = Exec(c, s, cmd[s], stderr_)
    /\ UNCHANGED <<envVars, jobVars, launchLocals, waitLocals, callVars, pc,
                   cont, ret, fds, other, nextPid, npipes, ttyPgrp, ttyModes>>

\* lines 71-112: a foreground child gives the terminal to its group and goes
\* on to line 75.
ChildTcsetpgrp(s) ==
    /\ child[s].st = "c_tcsetpgrp"
    /\ ttyPgrp' = TcSetPgrp(child, ttyPgrp, ChildPgid(child[s]))
    /\ child' = Exec(child, s, cmd[s], stderr_)
    /\ UNCHANGED <<envVars, jobVars, launchLocals, waitLocals, callVars, pc,
                   cont, ret, fds, other, nextPid, npipes, ttyModes>>

\* lines 84-112: the child of a shell that is not interactive.
ChildExec(s) ==
    /\ child[s].st = "c_exec"
    /\ child' = Exec(child, s, cmd[s], stderr_)
    /\ UNCHANGED <<envVars, jobVars, launchLocals, waitLocals, callVars, pc,
                   cont, ret, fds, other, nextPid, npipes, ttyPgrp, ttyModes>>

\* ------------------------------------------------ what a running child does
\* The program ends with some exit status.
ProcExit(s) ==
    /\ child[s].st = "running"
    /\ \E x \in {ExitOk, ExitFail} :
         child' = [child EXCEPT ![s].st = "zombie", ![s].xs = x]
    /\ UNCHANGED <<envVars, jobVars, launchLocals, waitLocals, callVars, pc,
                   cont, ret, fds, other, nextPid, npipes, ttyPgrp, ttyModes>>

\* The child in which INVALID_COMMAND was thrown leaves LaunchJob by the
\* exception; the evaluator that called LaunchJob turns it into exit(127).
ChildThrownExit(s) ==
    /\ child[s].st = "thrown"
    /\ child' = [child EXCEPT ![s].st = "zombie", ![s].xs = ExitNotFound]
    /\ UNCHANGED <<envVars, jobVars, launchLocals, waitLocals, callVars, pc,
                   cont, ret, fds, other, nextPid, npipes, ttyPgrp, ttyModes>>

\* A stop signal (SIGTSTP from the terminal, SIGSTOP, SIGTTIN) stops it.
ProcStop(s) ==
    /\ child[s].st = "running"
    /\ child' = [child EXCEPT ![s].st = "stopped_new", ![s].xs = StopStatus]
    /\ UNCHANGED <<envVars, jobVars, launchLocals, waitLocals, callVars, pc,
                   cont, ret, fds, other, nextPid, npipes, ttyPgrp, ttyModes>>

\* A program of the terminal's foreground group changes the terminal modes.
ProcSetModes(s) ==
    /\ child[s].st = "running"
    /\ child[s].pgrp = ttyPgrp
    /\ \E m \in TModes : m # ttyModes /\ ttyModes' = m
    /\ UNCHANGED <<envVars, jobVars, launchLocals, waitLocals, callVars, pc,
                   cont, ret, fds, child, other, nextPid, npipes, ttyPgrp>>

\* ------------------------------------------------------------ Job queries
\* A MarkProcessStatus that takes every reported status for an exit.
MarkProcessStatus_AlwaysCompleted(procs, p, status) ==
    LET hit == {s \in DOMAIN procs : procs[s].pid_ = p}
    IN IF p > 0 /\ hit # {}
         THEN LET s == CHOOSE x \in hit : \A y \in hit : x <= y
              IN [procs |-> [procs EXCEPT ![s].status_ = status,
                                          ![s].completed_ = 1],
                  ret |-> 0]
         ELSE [procs |-> procs, ret |-> -1]

\* Job::MarkProcessStatus: the process list afterwards and the result.
MarkProcessStatus(procs, p, status) ==
    LET hit == {s \in DOMAIN procs : procs[s].pid_ = p}
    IN IF p > 0 /\ hit # {}
         THEN LET s == CHOOSE x \in hit : \A y \in hit : x <= y
              IN [procs |-> [procs EXCEPT
                       ![s].status_ = status,
                       ![s].stopped_ = IF WIFSTOPPED(status) THEN 1 ELSE @,
                       ![s].completed_ = IF WIFSTOPPED(status) THEN @ ELSE 1],
                  ret |-> 0]
         ELSE [procs |-> procs, ret |-> -1]

JobIsStopped_IgnoresCompleted(procs) ==
    IF \E s \in DOMAIN procs : procs[s].stopped_ = 0 THEN 0 ELSE 1

\* Job::JobIsStopped
JobIsStopped(procs) ==
    IF \E s \in DOMAIN procs : procs[s].completed_ = 0 /\ procs[s].stopped_ = 0
      THEN 0 ELSE 1

\* Job::JobIsCompleted
JobIsCompleted(procs) ==
    IF \E s \in DOMAIN procs : procs[s].completed_ = 0 THEN 0 ELSE 1

RECURSIVE OrUpTo_Sum(_, _)
\* An aggregate that adds the statuses.
OrUpTo_Sum(procs, n) ==
    IF n = 0 THEN 0 ELSE OrUpTo_Sum(procs, n - 1) + procs[n - 1].status_

RECURSIVE OrUpTo(_, _)
\* status |= p.status_ over the first n processes.
OrUpTo(procs, n) ==
    IF n = 0 THEN 0 ELSE BitOr(OrUpTo(procs, n - 1), procs[n - 1].status_)

\* Job::Status
Status(procs) == OrUpTo(procs, Cardinality(DOMAIN procs))

\* ------------------------------------------------------------ Job::LaunchJob
\* line 222
LaunchJob ==
    /\ pc = "start"
    /\ infile' = stdin_
    /\ i' = 0
    /\ lastCall' = "launch"
    /\ pc' = "l_pipe"
    /\ UNCHANGED <<envVars, jobVars, waitLocals, outfile, mypipe, pid,
                   opsLeft, called, statusRet, contSent, cont, ret, fds, child,
                   other, nextPid, npipes, ttyPgrp, ttyModes>>

\* lines 225-235: every stage but the last gets a new pipe to write to.
LaunchPipe ==
    /\ pc = "l_pipe"
    /\ IF i # nproc - 1
         THEN LET r == LowestFree(fds)
                  t == [fds EXCEPT ![r] = PipeRd(npipes)]
                  w == LowestFree(t)
              IN /\ Cardinality(FreeFds(fds)) >= 2
                 /\ fds' = [t EXCEPT ![w] = PipeWr(npipes)]
                 /\ mypipe' = <<r, w>>
                 /\ outfile' = w
                 /\ npipes' = npipes + 1
         ELSE /\ outfile' = stdout_
              /\ UNCHANGED <<fds, mypipe, npipes>>
    /\ pc' = "l_fork"
    /\ UNCHANGED <<envVars, jobVars, waitLocals, callVars, i, infile, pid,
                   cont, ret, child, other, nextPid, ttyPgrp, ttyModes>>

\* lines 226-229: pipe() failed; perror and exit(1) end the shell.
LaunchPipeFails ==
    /\ pc = "l_pipe"
    /\ i # nproc - 1
    /\ pc' = "exit1"
    /\ UNCHANGED <<envVars, jobVars, launchLocals, waitLocals, callVars, cont,
                   ret, fds, child, other, nextPid, npipes, ttyPgrp, ttyModes>>

\* line 238: the child starts LaunchProcess with copies of the shell's
\* descriptors and of infile, outfile and pgid_ as they are now.
LaunchFork ==
    /\ pc = "l_fork"
    /\ pid' = nextPid
    /\ nextPid' = nextPid + 1
    /\ child' = [child EXCEPT ![i] =
                   [st |-> IF interactive THEN "c_setpgid" ELSE "c_exec",
                    pid |-> nextPid, xs |-> 0, pgrp |-> ShellPid, fds |-> fds,
                    ain |-> infile, aout |-> outfile, apgid |-> pgid_]]
    /\ pc' = "l_parent"
    /\ UNCHANGED <<envVars, jobVars, waitLocals, callVars, i, infile, outfile,
                   mypipe, cont, ret, fds, other, npipes, ttyPgrp, ttyModes>>

\* lines 242-245: fork() failed; perror and exit(1) end the shell.
LaunchForkFails ==
    /\ pc = "l_fork"
    /\ pid' = -1
    /\ pc' = "exit1"
    /\ UNCHANGED <<envVars, jobVars, waitLocals, callVars, i, infile, outfile,
                   mypipe, cont, ret, fds, child, other, nextPid, npipes,
                   ttyPgrp, ttyModes>>

\* lines 252-254: the group of the job is the first pid it forked.
ParentPgid(g, p) == IF g = 0 THEN p ELSE g

\* A shell that closes the end the stage read and keeps the end it wrote.
ParentCleanup_KeepsOutfile(t, in, out, sin, sout) ==
    IF in # sin THEN Close(t, in) ELSE t

\* lines 261-264: the shell closes the pipe ends the stage was given.
ParentCleanup(t, in, out, sin, sout) ==
    LET t1 == IF in # sin THEN Close(t, in) ELSE t
    IN IF out # sout THEN Close(t1, out) ELSE t1

\* lines 246-266: the parent's side of one stage.
LaunchParent ==
    /\ pc = "l_parent"
    /\ LET g == IF interactive THEN ParentPgid(pgid_, pid) ELSE pgid_
       IN /\ pgid_' = g
          /\ child' = IF interactive /\ BeforeExec(child, i)
                        THEN SetPgid(child, i, g)
                        ELSE child
    /\ process_' = [process_ EXCEPT ![i].pid_ = pid]
    /\ fds' = ParentCleanup(fds, infile, outfile, stdin_, stdout_)
    /\ infile' = mypipe[1]      \* mypipe[0] of the code: tuples count from 1
    /\ i' = i + 1
    /\ pc' = IF i + 1 < nproc THEN "l_pipe" ELSE "l_mode"
    /\ UNCHANGED <<envVars, status_, shell_tmodes_, stdin_, stdout_, stderr_,
                   waitLocals, callVars, outfile, mypipe, pid, cont, ret,
                   other, nextPid, npipes, ttyPgrp, ttyModes>>

\* A dispatch with the two interactive branches exchanged.
LaunchMode_Swapped(inter, fg) ==
    IF ~inter THEN "WaitForJob"
    ELSE IF fg THEN "PutJobInBackground"
    ELSE "PutJobInForeground"

\* lines 268-275: what LaunchJob calls once every stage is forked.
LaunchMode(inter, fg) ==
    IF ~inter THEN "WaitForJob"
    ELSE IF fg THEN "PutJobInForeground"
    ELSE "PutJobInBackground"

LaunchDispatch ==
    /\ pc = "l_mode"
    /\ called' = LaunchMode(interactive, foreground)
    /\ cont' = 0
    /\ pc' = CASE called' = "WaitForJob" -> "w_wait"
               [] called' = "PutJobInForeground" -> "fg_tcsetpgrp"
               [] OTHER -> "bg_kill"
    /\ ret' = IF called' = "WaitForJob" THEN "caller" ELSE ret
    /\ UNCHANGED <<envVars, jobVars, launchLocals, waitLocals, opsLeft,
                   lastCall, statusRet, contSent, fds, child, other, nextPid,
                   npipes, ttyPgrp, ttyModes>>

\* ----------------------------------------------------------- Job::WaitForJob
\* lines 169-170: the condition of the do-while loop, r being the result of
\* MarkProcessStatus.
KeepWaiting(procs, r) ==
    r = 0 /\ JobIsStopped(procs) = 0 /\ JobIsCompleted(procs) = 0

\* lines 167-170 once waitpid has returned p and left st in status.  The
\* locals pid and status and the return address end with the call.
Waited(p, st) ==
    LET m == MarkProcessStatus(process_, p, st)
        again == KeepWaiting(m.procs, m.ret)
    IN /\ status_' = BitOr(status_, st)
       /\ process_' = m.procs
       /\ w_pid' = IF again THEN p ELSE -1
       /\ w_status' = IF again THEN st ELSE 0
       /\ ret' = IF again THEN ret ELSE "none"
       /\ pc' = IF again THEN "w_wait"
                ELSE IF ret = "fg" THEN "fg_shell"
                ELSE "idle"

\* waitpid(WAIT_ANY, &status, WUNTRACED) reports a stage of this job that
\* ended or stopped.
WaitJobChild(s) ==
    /\ pc = "w_wait"
    /\ child[s].st \in {"zombie", "stopped_new"}
    /\ child' = [child EXCEPT
                   ![s].st = IF child[s].st = "zombie" THEN "reaped" ELSE "stopped"]
    /\ Waited(child[s].pid, child[s].xs)
    /\ UNCHANGED <<envVars, pgid_, shell_tmodes_, stdin_, stdout_, stderr_,
                   launchLocals, callVars, cont, fds, other, nextPid, npipes,
                   ttyPgrp, ttyModes>>

\* waitpid reports a child of the shell that is not of this job: a process
\* of an earlier background job has ended.  These children are alike, and
\* are taken to end in the order of their pids.
WaitOtherChild(o) ==
    /\ pc = "w_wait"
    /\ other[o] = "running"
    /\ \A q \in Others : q < o => other[q] = "reaped"
    /\ other' = [other EXCEPT ![o] = "reaped"]
    /\ Waited(ShellPid + o, ExitOk)
    /\ UNCHANGED <<envVars, pgid_, shell_tmodes_, stdin_, stdout_, stderr_,
                   launchLocals, callVars, cont, fds, child, nextPid, npipes,
                   ttyPgrp, ttyModes>>

\* The shell has no child left: waitpid fails with ECHILD and leaves the
\* local status as it was, which is not initialised.
WaitNoChild ==
    /\ pc = "w_wait"
    /\ \A s \in Stages : child[s].st \in {"none", "reaped"}
    /\ \A o \in Others : other[o] = "reaped"
    /\ \E st \in WaitStatuses : Waited(-1, st)
    /\ UNCHANGED <<envVars, pgid_, shell_tmodes_, stdin_, stdout_, stderr_,
                   launchLocals, callVars, cont, fds, child, other, nextPid,
                   npipes, ttyPgrp, ttyModes>>

\* --------------------------------------------------- Job::PutJobInForeground
\* line 189
FgTcsetpgrp ==
    /\ pc = "fg_tcsetpgrp"
    /\ ttyPgrp' = TcSetPgrp(child, ttyPgrp, pgid_)
    /\ ret' = "fg"
    /\ pc' = IF cont # 0 THEN "fg_tcsetattr" ELSE "w_wait"
    /\ UNCHANGED <<envVars, jobVars, launchLocals, waitLocals, callVars, cont,
                   fds, child, other, nextPid, npipes, ttyModes>>

\* A resume that installs the modes of the shell.
JobModes_OfShell(saved) == {ShellModes}

\* line 193: what tcsetattr reads from the job's shell_tmodes_.  A job that
\* has not left the foreground yet holds modes that were never written, and
\* the read then yields whatever that memory holds.
JobModes(saved) == IF saved # Unset THEN {saved} ELSE TModes

\* line 193: the modes saved in the job go to the terminal.
FgTcsetattr ==
    /\ pc = "fg_tcsetattr"
    /\ \E m \in JobModes(shell_tmodes_) : ttyModes' = m
    /\ pc' = "fg_kill"
    /\ UNCHANGED <<envVars, jobVars, launchLocals, waitLocals, callVars, cont,
                   ret, fds, child, other, nextPid, npipes, ttyPgrp>>

\* lines 194-196
FgKill ==
    /\ pc = "fg_kill"
    /\ child' = Continue(child, pgid_)
    /\ contSent' = contSent + 1
    /\ pc' = "w_wait"
    /\ UNCHANGED <<envVars, jobVars, launchLocals, waitLocals, opsLeft,
                   lastCall, called, statusRet, cont, ret, fds, other, nextPid,
                   npipes, ttyPgrp, ttyModes>>

\* line 203
FgShellPgrp ==
    /\ pc = "fg_shell"
    /\ ttyPgrp' = TcSetPgrp(child, ttyPgrp, ShellPid)
    /\ pc' = "fg_tcgetattr"
    /\ UNCHANGED <<envVars, jobVars, launchLocals, waitLocals, callVars, cont,
                   ret, fds, child, other, nextPid, npipes, ttyModes>>

\* line 206: the terminal's modes are saved in the job.
FgTcgetattr ==
    /\ pc = "fg_tcgetattr"
    /\ shell_tmodes_' = ttyModes
    /\ pc' = "fg_restore"
    /\ UNCHANGED <<envVars, process_, pgid_, status_, stdin_, stdout_, stderr_,
                   launchLocals, waitLocals, callVars, cont, ret, fds, child,
                   other, nextPid, npipes, ttyPgrp, ttyModes>>

\* line 207: the shell's own modes are back, and the method returns.
FgRestore ==
    /\ pc = "fg_restore"
    /\ ttyModes' = ShellModes
    /\ pc' = "idle"
    /\ UNCHANGED <<envVars, jobVars, launchLocals, waitLocals, callVars, cont,
                   ret, fds, child, other, nextPid, npipes, ttyPgrp>>

\* --------------------------------------------------- Job::PutJobInBackground
\* lines 210-216
BgKill ==
    /\ pc = "bg_kill"
    /\ IF cont # 0
         THEN /\ child' = Continue(child, pgid_)
              /\ contSent' = contSent + 1
         ELSE UNCHANGED <<child, contSent>>
    /\ pc' = "idle"
    /\ UNCHANGED <<envVars, jobVars, launchLocals, waitLocals, opsLeft,
                   lastCall, called, statusRet, cont, ret, fds, other, nextPid,
                   npipes, ttyPgrp, ttyModes>>

\* ------------------------------------------- the caller, once the job is up
\* Every process of the foreground job is stopped, and waitpid has said so.
AllStopped ==
    /\ foreground
    /\ \A s \in Stages : child[s].st = "stopped"

CallPutJobInForeground(c) ==
    /\ pc = "idle"
    /\ interactive
    /\ opsLeft > 0
    /\ opsLeft' = opsLeft - 1
    /\ cont' = c
    /\ statusRet' = 0
    /\ contSent' = 0
    /\ lastCall' = IF c = 0 THEN "fg0" ELSE IF AllStopped THEN "resume" ELSE "fg1"
    /\ pc' = "fg_tcsetpgrp"
    /\ UNCHANGED <<envVars, jobVars, launchLocals, waitLocals, called, ret,
                   fds, child, other, nextPid, npipes, ttyPgrp, ttyModes>>

CallPutJobInBackground(c) ==
    /\ pc = "idle"
    /\ interactive
    /\ opsLeft > 0
    /\ opsLeft' = opsLeft - 1
    /\ cont' = c
    /\ statusRet' = 0
    /\ contSent' = 0
    /\ lastCall' = IF c = 0 THEN "bg0" ELSE "bg1"
    /\ pc' = "bg_kill"
    /\ UNCHANGED <<envVars, jobVars, launchLocals, waitLocals, called, ret,
                   fds, child, other, nextPid, npipes, ttyPgrp, ttyModes>>

\* Job::Status, lines 173-181
CallStatus ==
    /\ pc = "idle"
    /\ opsLeft > 0
    /\ opsLeft' = opsLeft - 1
    /\ statusRet' = Status(process_)
    /\ contSent' = 0
    /\ lastCall' = "status"
    /\ UNCHANGED <<envVars, jobVars, launchLocals, waitLocals, called, pc,
                   cont, ret, fds, child, other, nextPid, npipes, ttyPgrp,
                   ttyModes>>

\* ---------------------------------------------------------- specification
Next ==
    \/ LaunchJob
    \/ LaunchPipe
    \/ LaunchPipeFails
    \/ LaunchFork
    \/ LaunchForkFails
    \/ LaunchParent
    \/ LaunchDispatch
    \/ \E s \in Stages : ChildSetpgid(s)
    \/ \E s \in Stages : ChildTcsetpgrp(s)
    \/ \E s \in Stages : ChildExec(s)
    \/ \E s \in Stages : ProcExit(s)
    \/ \E s \in Stages : ProcStop(s)
    \/ \E s \in Stages : ProcSetModes(s)
    \/ \E s \in Stages : WaitJobChild(s)
    \/ \E o \in Others : WaitOtherChild(o)
    \/ WaitNoChild
    \/ FgTcsetpgrp
    \/ FgTcsetattr
    \/ FgKill
    \/ FgShellPgrp
    \/ FgTcgetattr
    \/ FgRestore
    \/ BgKill
    \/ \E c \in {0, 1} : CallPutJobInForeground(c)
    \/ \E c \in {0, 1} : CallPutJobInBackground(c)
    \/ CallStatus

Spec == Init /\ [][Next]_vars

\* The launch alone, up to the call LaunchJob ends with: the stages, their
\* pipes and their descriptors.
NextLaunch ==
    \/ LaunchJob
    \/ LaunchPipe
    \/ LaunchPipeFails
    \/ LaunchFork
    \/ LaunchForkFails
    \/ LaunchParent
    \/ LaunchDispatch
    \/ \E s \in Stages : ChildSetpgid(s)
    \/ \E s \in Stages : ChildTcsetpgrp(s)
    \/ \E s \in Stages : ChildExec(s)
    \/ \E s \in Stages : ChildThrownExit(s)

SpecLaunch == InitLaunch /\ [][NextLaunch]_vars

\* ------------------------------------------------- AbstractMethod equality
AmEqFunc_IgnoresDefaults(m, func) ==
    func.np = m.np /\ func.va = m.va

\* AbstractMethod::operator==(const FuncObject&)
AmEqFunc(m, func) ==
    IF m.va
      THEN func.np = m.np /\ func.nd = m.nd /\ func.va = m.va
      ELSE func.np = m.np /\ func.va = m.va

\* AbstractMethod::operator!=(const FuncObject&)
AmNeFunc(m, func) == ~AmEqFunc(m, func)

AmEqAm_AlwaysDefaults(m, func) ==
    func.np = m.np /\ func.nd = m.nd /\ func.va = m.va

\* AbstractMethod::operator==(const AbstractMethod&)
AmEqAm(m, func) ==
    IF m.va
      THEN func.np = m.np /\ func.nd = m.nd /\ func.va = m.va
      ELSE func.np = m.np /\ func.va = m.va

\* AbstractMethod::operator!=(const AbstractMethod&)
AmNeAm(m, func) == ~AmEqAm(m, func)

\* Every operator applied to one pair of signatures, in both orders, and to
\* the first signature and itself.
Compare ==
    /\ cmpRes = NoCmp
    /\ cmpRes' = [done |-> TRUE,
                  eqAm |-> AmEqAm(cmpA, cmpB), neAm |-> AmNeAm(cmpA, cmpB),
                  eqFunc |-> AmEqFunc(cmpA, cmpB),
                  neFunc |-> AmNeFunc(cmpA, cmpB),
                  revAm |-> AmEqAm(cmpB, cmpA),
                  revFunc |-> AmEqFunc(cmpB, cmpA),
                  selfAm |-> AmEqAm(cmpA, cmpA),
                  selfFunc |-> AmEqFunc(cmpA, cmpA)]
    /\ UNCHANGED <<shellVars, typeVars, objVars, cmpA, cmpB>>

InitSig ==
    /\ NoJob
    /\ NoDecls
    /\ NoExec
    /\ cmpA \in Sigs
    /\ cmpB \in Sigs
    /\ cmpRes = NoCmp

NextSig == Compare

SpecSig == InitSig /\ [][NextSig]_vars

\* ------------------------------------------------------- declared classes
IncompatibleType == "INCOMPATIBLE_TYPE"
NoError == "none"

RECURSIVE SearchAttr(_, _)
\* TypeObject::SearchAttr: the class's own symbol table, then its base's.
SearchAttr(c, name) ==
    IF name \in DOMAIN ctype[c].attrs THEN ctype[c].attrs[name]
    ELSE IF ctype[c].base = NoBase THEN NoAttr
    ELSE SearchAttr(ctype[c].base, name)

\* TypeObject::ExistsAttr
ExistsAttr(c, name) == SearchAttr(c, name) # NoAttr

InheritedMethods_None(base) == NoMethods

\* The abstract methods that the constructor copies from the base class.
InheritedMethods(base) ==
    IF base = NoBase THEN NoMethods ELSE ctype[base].abstract_methods_

\* DeclClassType::DeclClassType
NewClass(c, base, ifs, abstract) ==
    /\ ~ctype[c].made
    /\ base # NoBase => ctype[base].made
    /\ \A k \in DOMAIN ifs : iface[ifs[k]].made
    /\ ctype' = [ctype EXCEPT ![c] =
                   [made |-> TRUE, abstract_ |-> abstract, base |-> base,
                    ifaces |-> ifs,
                    abstract_methods_ |-> InheritedMethods(base),
                    attrs |-> NoAttrs]]
    /\ res' = NoResult
    /\ UNCHANGED <<shellVars, sideVars, iface, membersLeft>>

\* A declaration in the class body: the symbol table of the class gets a
\* function or another object under a new name.
DeclareAttr(c, name, attr) ==
    /\ ctype[c].made
    /\ name \notin DOMAIN ctype[c].attrs
    /\ membersLeft > 0
    /\ membersLeft' = membersLeft - 1
    /\ ctype' = [ctype EXCEPT ![c].attrs = Insert(@, name, attr)]
    /\ res' = NoResult
    /\ UNCHANGED <<shellVars, sideVars, iface>>

AddAbstractMethodError_NoDuplicateCheck(c, name) ==
    IF ~ctype[c].abstract_ THEN IncompatibleType
    ELSE IF ExistsAttr(c, name) THEN IncompatibleType
    ELSE NoError

\* What DeclClassType::AddAbstractMethod throws.
AddAbstractMethodError(c, name) ==
    IF ~ctype[c].abstract_ THEN IncompatibleType
    ELSE IF name \in DOMAIN ctype[c].abstract_methods_ THEN IncompatibleType
    ELSE IF ExistsAttr(c, name) THEN IncompatibleType
    ELSE NoError

\* DeclClassType::AddAbstractMethod; the result of a call that returns names
\* the method it has added.
AddAbstractMethod(c, name, method) ==
    /\ ctype[c].made
    /\ IF AddAbstractMethodError(c, name) = NoError
         THEN /\ res' = [Result("AddAbstractMethod", c, name, NoError)
                          EXCEPT !.args = <<method>>]
              /\ membersLeft > 0
              /\ membersLeft' = membersLeft - 1
              /\ ctype' = [ctype EXCEPT ![c].abstract_methods_ =
                             Insert(@, name, method)]
         ELSE /\ res' = Result("AddAbstractMethod", c, name,
                               AddAbstractMethodError(c, name))
              /\ UNCHANGED <<ctype, membersLeft>>
    /\ UNCHANGED <<shellVars, sideVars, iface>>

\* One turn of the loop of CheckAbstractMethodsCompatibility: whether the
\* abstract method name is implemented.
Implemented(c, name, method) ==
    /\ SearchAttr(c, name).type = "FUNC"
    /\ ~AmNeFunc(method, SearchAttr(c, name).sig)

CheckAbstractError_NoSignature(c) ==
    IF ctype[c].abstract_ THEN NoError
    ELSE IF \E n \in DOMAIN ctype[c].abstract_methods_ :
              SearchAttr(c, n).type # "FUNC"
      THEN IncompatibleType
    ELSE NoError

\* What DeclClassType::CheckAbstractMethodsCompatibility throws.
CheckAbstractError(c) ==
    IF ctype[c].abstract_ THEN NoError
    ELSE IF \E n \in DOMAIN ctype[c].abstract_methods_ :
              ~Implemented(c, n, ctype[c].abstract_methods_[n])
      THEN IncompatibleType
    ELSE NoError

\* DeclClassType::CheckAbstractMethodsCompatibility
CheckAbstractMethodsCompatibility(c) ==
    /\ ctype[c].made
    /\ res' = Result("CheckAbstractMethodsCompatibility", c, "none",
                     CheckAbstractError(c))
    /\ UNCHANGED <<shellVars, sideVars, ctype, iface, membersLeft>>

\* The method of an interface that the class itself declares abstract with
\* an equal signature is left to the derived classes.
DeclaredAbstract(c, name, method) ==
    /\ name \in DOMAIN ctype[c].abstract_methods_
    /\ AmEqAm(ctype[c].abstract_methods_[name], method)

\* What DeclClassType::CheckInterfaceCompatibility throws.
CheckInterfaceError(c) ==
    IF \E k \in DOMAIN ctype[c].ifaces :
         \/ ctype[c].ifaces[k] \notin IfaceIds
         \/ \E n \in DOMAIN iface[ctype[c].ifaces[k]].methods_ :
              /\ ~DeclaredAbstract(c, n, iface[ctype[c].ifaces[k]].methods_[n])
              /\ ~Implemented(c, n, iface[ctype[c].ifaces[k]].methods_[n])
      THEN IncompatibleType
    ELSE NoError

\* DeclClassType::CheckInterfaceCompatibility
CheckInterfaceCompatibility(c) ==
    /\ ctype[c].made
    /\ res' = Result("CheckInterfaceCompatibility", c, "none",
                     CheckInterfaceError(c))
    /\ UNCHANGED <<shellVars, sideVars, ctype, iface, membersLeft>>

\* The arguments a caller passes to a constructor.
ArgLists == {<<>>, <<"x", "y">>}
\* How a call of __init__ ends: with a value or with an exception.
InitOutcomes == {"None", "value", "throws"}

\* symbol_table_stack().Exists("__init__") and the looked up object is a
\* function.
HasInit(c) ==
    /\ "__init__" \in DOMAIN ctype[c].attrs
    /\ ctype[c].attrs["__init__"].type = "FUNC"

InitArgs_SelfLast(args) == args \o <<"obj_self">>

\* params.insert(params.begin(), obj_self)
InitArgs(args) == <<"obj_self">> \o args

ConstructorResult_AllocatesFirst(c, args, out) ==
    IF ctype[c].abstract_
      THEN [Result("Constructor", c, "none", IncompatibleType)
              EXCEPT !.args = args, !.alloc = 1]
    ELSE IF ~HasInit(c)
      THEN [Result("Constructor", c, "none", NoError)
              EXCEPT !.args = args, !.alloc = 1, !.ret = "obj_self"]
    ELSE IF out = "throws"
      THEN [Result("Constructor", c, "none", "RunTimeError")
              EXCEPT !.args = args, !.alloc = 1,
                     !.calls = <<InitArgs(args)>>, !.initRet = out]
    ELSE [Result("Constructor", c, "none", NoError)
            EXCEPT !.args = args, !.alloc = 1, !.ret = "obj_self",
                   !.calls = <<InitArgs(args)>>, !.initRet = out]

\* What DeclClassType::Constructor does when __init__, if called, ends as out.
ConstructorResult(c, args, out) ==
    IF ctype[c].abstract_
      THEN [Result("Constructor", c, "none", IncompatibleType)
              EXCEPT !.args = args]
    ELSE IF ~HasInit(c)
      THEN [Result("Constructor", c, "none", NoError)
              EXCEPT !.args = args, !.alloc = 1, !.ret = "obj_self"]
    ELSE IF out = "throws"
      THEN [Result("Constructor", c, "none", "RunTimeError")
              EXCEPT !.args = args, !.alloc = 1,
                     !.calls = <<InitArgs(args)>>, !.initRet = out]
    ELSE [Result("Constructor", c, "none", NoError)
            EXCEPT !.args = args, !.alloc = 1, !.ret = "obj_self",
                   !.calls = <<InitArgs(args)>>, !.initRet = out]

\* DeclClassType::Constructor
Constructor(c, args) ==
    /\ ctype[c].made
    /\ \E out \in InitOutcomes : res' = ConstructorResult(c, args, out)
    /\ UNCHANGED <<shellVars, sideVars, ctype, iface, membersLeft>>

\* ------------------------------------------------------ declared objects
\* What a class body declares under a name: a method, a static method, a
\* function that is not declared in the language (native), or a value.
MethodFunc == FuncAttr(Sig(1, 0, FALSE))
StaticFunc == [MethodFunc EXCEPT !.static = TRUE]
NativeFunc == [MethodFunc EXCEPT !.declared = FALSE]
TypeAttrs == {MethodFunc, StaticFunc, NativeFunc, OtherAttr}
\* What a program assigns to an attribute of an object.
Values == {MethodFunc, OtherAttr}

RECURSIVE AttrOwner(_, _)
\* The class in whose symbol table TypeObject::SearchAttr finds the name.
AttrOwner(c, name) ==
    IF name \in DOMAIN ctype[c].attrs THEN c
    ELSE IF ctype[c].base = NoBase THEN "none"
    ELSE AttrOwner(ctype[c].base, name)

\* The outcomes of an attribute access: the object held under a name by a
\* class or by a declared object, a new wrapper that binds self to it, the
\* failure of the lookup, or an exception.
Returned(owner, name) ==
    [ret |-> "object", of |-> <<owner, name>>, self |-> "none", err |-> NoError]
Wrapped(owner, name, self) ==
    [ret |-> "wrapper", of |-> <<owner, name>>, self |-> self, err |-> NoError]
Missing == [ret |-> "missing", of |-> <<>>, self |-> "none", err |-> NoError]
Thrown(err) == [ret |-> "none", of |-> <<>>, self |-> "none", err |-> err]

\* DeclClassObject::DeclClassObject, called by ObjectFactory::NewDeclObject
\* in DeclClassType::Constructor: the object's own table is pushed.
NewDeclObject(o, c) ==
    /\ ~inst[o].made
    /\ ctype[c].made /\ ~ctype[c].abstract_
    /\ inst' = [inst EXCEPT ![o] =
                  [made |-> TRUE, cls |-> c, tables |-> 1, scope |-> NoAttrs]]
    /\ res' = NoResult
    /\ UNCHANGED <<shellVars, cmpVars, ctype, iface, membersLeft>>

\* DeclClassType::CallObject
CallObject(c, name, self_param) ==
    IF SearchAttr(c, name).type = "FUNC"
      THEN Wrapped(AttrOwner(c, name), name, self_param)
    ELSE IF SearchAttr(c, name) = NoAttr THEN Missing
    ELSE Returned(AttrOwner(c, name), name)

TypeAttr_WrapsNative(o, name) ==
    IF SearchAttr(inst[o].cls, name).type = "FUNC"
      THEN IF SearchAttr(inst[o].cls, name).static
             THEN Thrown(IncompatibleType)
           ELSE Wrapped(AttrOwner(inst[o].cls, name), name, o)
    ELSE IF SearchAttr(inst[o].cls, name) = NoAttr THEN Missing
    ELSE Returned(AttrOwner(inst[o].cls, name), name)

\* DeclClassObject::Attr for a name that the object's table does not hold.
TypeAttr(o, name) ==
    IF SearchAttr(inst[o].cls, name).type = "FUNC"
      THEN IF ~SearchAttr(inst[o].cls, name).declared
             THEN Returned(AttrOwner(inst[o].cls, name), name)
           ELSE IF SearchAttr(inst[o].cls, name).static
             THEN Thrown(IncompatibleType)
           ELSE Wrapped(AttrOwner(inst[o].cls, name), name, o)
    ELSE IF SearchAttr(inst[o].cls, name) = NoAttr THEN Missing
    ELSE Returned(AttrOwner(inst[o].cls, name), name)

\* What DeclClassObject::Attr returns or throws.
AttrResult(o, name) ==
    IF name \in DOMAIN inst[o].scope
      THEN IF inst[o].scope[name].type = "FUNC"
             THEN CallObject(inst[o].cls, name, o)
           ELSE Returned(o, name)
    ELSE TypeAttr(o, name)

\* DeclClassObject::Attr
Attr(o, name) ==
    /\ inst[o].made
    /\ res' = [Result("Attr", o, name, AttrResult(o, name).err)
                 EXCEPT !.ret = AttrResult(o, name).ret,
                        !.of = AttrResult(o, name).of,
                        !.self = AttrResult(o, name).self]
    /\ UNCHANGED <<shellVars, cmpVars, objVars, ctype, iface, membersLeft>>

AssignedInst_EveryObject(o, name, v) ==
    [p \in InstIds |->
       IF inst[p].made THEN [inst[p] EXCEPT !.scope = Insert(@, name, v)]
       ELSE inst[p]]

\* The objects after symbol_table_stack().Lookup(name, true).Ref() on the
\* object o and the store of v through the binding it returns.
AssignedInst(o, name, v) == [inst EXCEPT ![o].scope = Insert(@, name, v)]

\* DeclClassObject::AttrAssign and the assignment through its result.
AttrAssign(o, name, v) ==
    /\ inst[o].made
    /\ inst' = AssignedInst(o, name, v)
    /\ IF name \in DOMAIN inst[o].scope
         THEN UNCHANGED membersLeft
         ELSE membersLeft > 0 /\ membersLeft' = membersLeft - 1
    /\ res' = Result("AttrAssign", o, name, NoError)
    /\ UNCHANGED <<shellVars, cmpVars, ctype, iface>>


\* ------------------------------------------- operators of declared objects
\* The kinds of object that a function of a program returns.
Kinds == {"STRING", "INT", "NULL"}
\* The names under which the operators of this model are looked up.
OpNames ==
    {"__call__", "__add__", "__print__", "__len__", "__hash__", "__bool__",
     "__str__"}
SymbolNotFound == "SYMBOL_NOT_FOUND"

\* The type's symbol-table stack, as Caller sees it through SymTableStack():
\* the table of the class.
TypeScope(o) == ctype[inst[o].cls].attrs

Caller_ObjectScopeFirst(o, fname, params, k) ==
    LET st == IF fname \in DOMAIN inst[o].scope THEN inst[o].scope
              ELSE TypeScope(o)
        owner == IF fname \in DOMAIN inst[o].scope THEN o ELSE inst[o].cls
    IN  IF fname \notin DOMAIN st
          THEN Result("Caller", o, fname, SymbolNotFound)
        ELSE IF st[fname].type # "FUNC"
          THEN Result("Caller", o, fname, IncompatibleType)
        ELSE [Result("Caller", o, fname, NoError) EXCEPT
                !.of = <<owner, fname>>, !.calls = <<(<<o>> \o params)>>,
                !.fret = k, !.ret = k]

\* DeclClassObject::Caller(fname, params, kw_params): the lookup of fname in
\* the stack of the type, the test that it is a function, and its call with
\* self inserted before params; k is the kind of object the function
\* returns. A name that the stack does not hold makes the lookup fail.
Caller(o, fname, params, k) ==
    LET st == TypeScope(o)
    IN  IF fname \notin DOMAIN st
          THEN Result("Caller", o, fname, SymbolNotFound)
        ELSE IF st[fname].type # "FUNC"
          THEN Result("Caller", o, fname, IncompatibleType)
        ELSE [Result("Caller", o, fname, NoError) EXCEPT
                !.of = <<inst[o].cls, fname>>,
                !.calls = <<(<<o>> \o params)>>,
                !.fret = k, !.ret = k]

\* The form of Caller that the operators use, Caller(fname, self, operands):
\* the same lookup and test, and the call with self and then the operands.
CallerOperands(o, fname, operands, k) == Caller(o, fname, operands, k)

\* The test after Caller in Print, Len and Hash: a result of another kind
\* than the required one throws INCOMPATIBLE_TYPE and nothing is returned.
RequireKind(r, kind) ==
    IF r.err = NoError /\ r.fret # kind
      THEN [r EXCEPT !.err = IncompatibleType, !.ret = "none"]
      ELSE r

\* An operator acts on a constructed object and leaves every scope alone.
Operator(o, op, r) ==
    /\ inst[o].made
    /\ res' = [r EXCEPT !.op = op]
    /\ UNCHANGED <<shellVars, cmpVars, objVars, ctype, iface, membersLeft>>

\* DeclClassObject::Call
Call(o, params) ==
    \E k \in Kinds : Operator(o, "Call", Caller(o, "__call__", params, k))

\* DeclClassObject::Add
Add(o, obj) ==
    \E k \in Kinds :
      Operator(o, "Add", CallerOperands(o, "__add__", <<obj>>, k))

\* DeclClassObject::Print
ObjPrint(o) ==
    \E k \in Kinds :
      Operator(o, "Print",
               RequireKind(CallerOperands(o, "__print__", <<>>, k), "STRING"))

\* DeclClassObject::Len
ObjLen(o) ==
    \E k \in Kinds :
      Operator(o, "Len",
               RequireKind(CallerOperands(o, "__len__", <<>>, k), "INT"))

\* DeclClassObject::Hash
ObjHash(o) ==
    \E k \in Kinds :
      Operator(o, "Hash",
               RequireKind(CallerOperands(o, "__hash__", <<>>, k), "INT"))

\* DeclClassObject::ObjBool
ObjBool(o) ==
    \E k \in Kinds :
      Operator(o, "ObjBool", CallerOperands(o, "__bool__", <<>>, k))

\* DeclClassObject::ObjString
ObjString(o) ==
    \E k \in Kinds :
      Operator(o, "ObjString", CallerOperands(o, "__str__", <<>>, k))


\* ------------------------------------------------- objects of an expression
\* The kinds of object an identifier is bound to.
IdentKinds ==
    {"INT", "REAL", "BOOL", "STRING", "NULL", "ARRAY", "TUPLE", "MAP",
     "DECL_OBJ"}

Simple_NotNull(kind) == kind \in {"INT", "REAL", "BOOL", "STRING"}

\* The kinds whose objects a read copies.
Simple(kind) == kind \in {"INT", "REAL", "BOOL", "STRING", "NULL"}

\* ExpressionExecutor::ExecIdentifier for the read s of the identifier: the
\* lookup in the symbol table, and a copy of the object, with an identity
\* of its own, if it is simple, else the object of the symbol table. The
\* object that the read s held before is let go.
ExecIdentifier(s) ==
    /\ heap[Bound] # Free
    /\ IF Simple(heap[Bound].kind)
         THEN /\ heap' = [heap EXCEPT ![s] = heap[Bound]]
              /\ handle' = [handle EXCEPT ![s] = s]
         ELSE /\ heap' = [heap EXCEPT ![s] = Free]
              /\ handle' = [handle EXCEPT ![s] = Bound]
    /\ res' = Result("ExecIdentifier", s, Bound, NoError)
    /\ UNCHANGED <<commandVars, deferVars, cmpVars, objVars, ctype, iface,
                   membersLeft>>

\* The program changes the value of the object it holds from the read s.
Mutate(s) ==
    /\ handle[s] # NoObject
    /\ heap[handle[s]].val < MaxVal
    /\ heap' = [heap EXCEPT ![handle[s]].val = @ + 1]
    /\ res' = Result("Mutate", s, Bound, NoError)
    /\ UNCHANGED <<commandVars, deferVars, handle, cmpVars, objVars, ctype,
                   iface, membersLeft>>

\* The program changes the value of the object through the symbol table.
MutateEntry ==
    /\ heap[Bound] # Free
    /\ heap[Bound].val < MaxVal
    /\ heap' = [heap EXCEPT ![Bound].val = @ + 1]
    /\ res' = Result("MutateEntry", Bound, Bound, NoError)
    /\ UNCHANGED <<commandVars, deferVars, handle, cmpVars, objVars, ctype,
                   iface, membersLeft>>


\* --------------------------------------------------- deferred statements
\* The ways a scope is left.
ExitPaths == {"end", "return", "throw"}

RECURSIVE Drained(_)
Drained_IgnoresThrow(stack) ==
    [ran |-> [k \in 1 .. Len(stack) |-> stack[Len(stack) + 1 - k]],
     left |-> <<>>]

\* The loop of ExecuteDeferStack over the stack, whose top is its last
\* element: the statements it runs, in order, and those it leaves on the
\* stack. A statement that throws ends the loop.
Drained(stack) ==
    IF stack = <<>> THEN [ran |-> <<>>, left |-> <<>>]
    ELSE LET top == stack[Len(stack)]
             below == SubSeq(stack, 1, Len(stack) - 1)
         IN  IF top.throws THEN [ran |-> <<top>>, left |-> below]
             ELSE LET rest == Drained(below)
                  IN  [ran |-> <<top>> \o rest.ran, left |-> rest.left]

\* ScopeExecutor::PushDeferStmt: the body of the scope defers a statement,
\* which will or will not throw when it runs.
PushDeferStmt(throws) ==
    /\ scope = "running"
    /\ Len(pushed) < MaxDefers
    /\ LET s == [id |-> Len(pushed) + 1, throws |-> throws]
       IN  /\ defer_stack_' = Append(defer_stack_, s)
           /\ pushed' = Append(pushed, s)
    /\ res' = NoResult
    /\ UNCHANGED <<commandVars, identVars, cmpVars, objVars, ctype, iface,
                   membersLeft, executed_defer_, scope, ran>>

\* The body of the scope ends, returns or throws.
ExitScope(path) ==
    /\ scope = "running"
    /\ scope' = path
    /\ res' = NoResult
    /\ UNCHANGED <<commandVars, identVars, cmpVars, objVars, ctype, iface,
                   membersLeft, defer_stack_, executed_defer_, pushed, ran>>

\* ScopeExecutor::ExecuteDeferStack, called when the scope is left: the
\* first call drains the stack, any other call does nothing.
ExecuteDeferStack ==
    /\ scope \in ExitPaths
    /\ IF executed_defer_
         THEN /\ res' = Result("ExecuteDeferStack", "scope", scope, NoError)
              /\ UNCHANGED <<defer_stack_, executed_defer_, ran>>
         ELSE LET d == Drained(defer_stack_)
              IN  /\ executed_defer_' = TRUE
                  /\ defer_stack_' = d.left
                  /\ ran' = ran \o d.ran
                  /\ res' = [Result("ExecuteDeferStack", "scope", scope,
                                    NoError) EXCEPT !.calls = d.ran]
    /\ UNCHANGED <<commandVars, identVars, cmpVars, objVars, ctype, iface,
                   membersLeft, scope, pushed>>

\* ---------------------------------------------------- declared interfaces
RECURSIVE MergeMethods(_, _)
\* The loop of DeclInterface::DeclInterface over the base interfaces ifs,
\* begun with the methods m: the merged map, or the exception of a name
\* that is met twice.
MergeMethods(ifs, m) ==
    IF ifs = <<>> THEN [err |-> NoError, methods_ |-> m]
    ELSE IF DOMAIN iface[Head(ifs)].methods_ \cap DOMAIN m # {}
      THEN [err |-> IncompatibleType, methods_ |-> m]
    ELSE MergeMethods(Tail(ifs),
           [n \in DOMAIN m \cup DOMAIN iface[Head(ifs)].methods_ |->
              IF n \in DOMAIN m THEN m[n] ELSE iface[Head(ifs)].methods_[n]])

\* DeclInterface::DeclInterface
NewInterface(f, ifs) ==
    /\ ~iface[f].made
    /\ \A k \in DOMAIN ifs : iface[ifs[k]].made
    /\ res' = [Result("DeclInterface", f, "none",
                      MergeMethods(ifs, NoMethods).err) EXCEPT !.args = ifs]
    /\ IF MergeMethods(ifs, NoMethods).err = NoError
         THEN iface' = [iface EXCEPT ![f] =
                          [made |-> TRUE, bases |-> ifs,
                           methods_ |-> MergeMethods(ifs, NoMethods).methods_]]
         ELSE UNCHANGED iface
    /\ UNCHANGED <<shellVars, sideVars, ctype, membersLeft>>

\* DeclInterface::Constructor
IfaceConstructor(f, args) ==
    /\ iface[f].made
    /\ res' = [Result("Constructor", f, "none", IncompatibleType)
                 EXCEPT !.args = args]
    /\ UNCHANGED <<shellVars, sideVars, ctype, iface, membersLeft>>

AddMethodError_Never(f, name) == NoError

\* What DeclInterface::AddMethod throws.
AddMethodError(f, name) ==
    IF name \in DOMAIN iface[f].methods_ THEN IncompatibleType ELSE NoError

\* DeclInterface::AddMethod
AddMethod(f, name, method) ==
    /\ iface[f].made
    /\ res' = Result("AddMethod", f, name, AddMethodError(f, name))
    /\ IF AddMethodError(f, name) = NoError
         THEN /\ membersLeft > 0
              /\ membersLeft' = membersLeft - 1
              /\ iface' = [iface EXCEPT ![f].methods_ =
                             Insert(@, name, method)]
         ELSE UNCHANGED <<iface, membersLeft>>
    /\ UNCHANGED <<shellVars, sideVars, ctype>>

\* ------------------------------------------- declarations of a program
\* Types are declared in the order of their names, a class after its base.
Earlier(t) ==
    CASE t = "B" -> {"A"}
      [] t = "J" -> {"I"}
      [] t = "K" -> {"I", "J"}
      [] OTHER -> {}
Bases(c) == {NoBase} \cup Earlier(c)
IfaceLists(ids) == UNION {[1 .. k -> ids] : k \in 0 .. 2}
Declarable(t, tbl) == \A u \in Earlier(t) : tbl[u].made

InitClass == NoJob /\ NoTypes

\* Classes, their abstract methods and members, and their instantiation;
\* an interface without methods.
NextClass ==
    \/ \E c \in ClassIds, a \in BOOLEAN :
         \E b \in Bases(c) :
           Declarable(c, ctype) /\ NewClass(c, b, <<>>, a)
    \/ \E c \in ClassIds, n \in Names, s \in SigSamples :
         \/ AddAbstractMethod(c, n, s)
         \/ DeclareAttr(c, n, FuncAttr(s))
    \/ \E c \in ClassIds, n \in Names : DeclareAttr(c, n, OtherAttr)
    \/ \E c \in ClassIds : CheckAbstractMethodsCompatibility(c)
    \/ \E c \in ClassIds, args \in ArgLists : Constructor(c, args)
    \/ NewInterface("I", <<>>)
    \/ \E args \in ArgLists : IfaceConstructor("I", args)

SpecClass == InitClass /\ [][NextClass]_vars

\* One class that implements, or not, the interface I.
NextConform ==
    \/ \E a \in BOOLEAN, ifs \in {<<>>, <<"I">>} :
         NewClass("A", NoBase, ifs, a)
    \/ \E n \in Names, s \in SigSamples :
         \/ AddAbstractMethod("A", n, s)
         \/ DeclareAttr("A", n, FuncAttr(s))
         \/ AddMethod("I", n, s)
    \/ \E n \in Names : DeclareAttr("A", n, OtherAttr)
    \/ NewInterface("I", <<>>)
    \/ CheckInterfaceCompatibility("A")

SpecConform == InitClass /\ [][NextConform]_vars

\* Interfaces and their base interfaces.
NextIface ==
    \/ \E f \in IfaceIds :
         \E ifs \in IfaceLists(Earlier(f)) :
           Declarable(f, iface) /\ NewInterface(f, ifs)
    \/ \E f \in IfaceIds, n \in Names, s \in SigSamples : AddMethod(f, n, s)
    \/ \E f \in IfaceIds, args \in ArgLists : IfaceConstructor(f, args)

SpecIface == InitClass /\ [][NextIface]_vars

\* The class A, its subclass B, their members, and objects of both.
NextAttr ==
    \/ NewClass("A", NoBase, <<>>, FALSE)
    \/ ctype["A"].made /\ NewClass("B", "A", <<>>, FALSE)
    \/ \E c \in ClassIds, n \in Names, a \in TypeAttrs : DeclareAttr(c, n, a)
    \/ \E o \in InstIds, c \in ClassIds : NewDeclObject(o, c)
    \/ \E o \in InstIds, n \in Names, v \in Values : AttrAssign(o, n, v)
    \/ \E o \in InstIds, n \in Names : Attr(o, n)

SpecAttr == InitClass /\ [][NextAttr]_vars


\* The class A with operators among its members, an object of it with
\* attributes of its own under the same names, and the operators applied to
\* the object.
NextOp ==
    \/ NewClass("A", NoBase, <<>>, FALSE)
    \/ \E n \in OpNames, a \in Values : DeclareAttr("A", n, a)
    \/ NewDeclObject("x", "A")
    \/ \E n \in OpNames, v \in Values : AttrAssign("x", n, v)
    \/ \E a \in ArgLists : Call("x", a)
    \/ Add("x", "y")
    \/ ObjPrint("x")
    \/ ObjLen("x")
    \/ ObjHash("x")
    \/ ObjBool("x")
    \/ ObjString("x")

SpecOp == InitClass /\ [][NextOp]_vars


\* An identifier bound to an object of any kind, read twice, and the object
\* changed through what the reads returned and through the symbol table.
InitIdent ==
    /\ NoJob
    /\ NoDecls
    /\ NoCompare
    /\ NoDefer
    /\ \E k \in IdentKinds, v \in 0 .. 1 :
         heap = [id \in ObjIds |->
                   IF id = Bound THEN [kind |-> k, val |-> v] ELSE Free]
    /\ handle = [s \in Slots |-> NoObject]

NextIdent ==
    \/ \E s \in Slots : ExecIdentifier(s)
    \/ \E s \in Slots : Mutate(s)
    \/ MutateEntry

SpecIdent == InitIdent /\ [][NextIdent]_vars


\* A scope that has been entered: its body defers statements and is left,
\* and its defer stack is drained, once and again.
InitDefer ==
    /\ NoJob
    /\ NoDecls
    /\ NoCompare
    /\ NoIdent
    /\ defer_stack_ = <<>>
    /\ executed_defer_ = FALSE
    /\ scope = "running"
    /\ pushed = <<>>
    /\ ran = <<>>

NextDefer ==
    \/ \E t \in BOOLEAN : PushDeferStmt(t)
    \/ \E p \in ExitPaths : ExitScope(p)
    \/ ExecuteDeferStack

SpecDefer == InitDefer /\ [][NextDefer]_vars

\* ------------------------------------------------------------------ properties
\* The foreground launch of an interactive shell has returned to its caller.
ForegroundLaunchReturned ==
    pc = "idle" /\ lastCall = "launch" /\ interactive /\ foreground

\* C1: when LaunchJob(foreground=true) returns in an interactive shell, every
\* process of the job has its completed_ or stopped_ flag set by a reported
\* wait status and none of them is still running, whatever other children
\* the shell has.
C1_ForegroundLaunchWaitsForAll ==
    ForegroundLaunchReturned =>
      \A s \in Stages :
        /\ process_[s].completed_ = 1 \/ process_[s].stopped_ = 1
        /\ child[s].st \in {"stopped", "reaped"}

\* C2: once LaunchJob(foreground=true) or PutJobInForeground has returned,
\* the terminal's foreground group is the shell's group, however the
\* children's tcsetpgrp interleaves with the shell's.
C2_TerminalBackToShell ==
    (/\ pc = "idle"
     /\ interactive
     /\ \/ lastCall = "launch" /\ foreground
        \/ lastCall \in {"fg0", "fg1", "resume"})
    => ttyPgrp = ShellPid

\* C8: a stopped foreground job reports stopped and not completed; resumed
\* with PutJobInForeground(cont=1), when each of its processes has run on and
\* exited with status 0, the call has returned only after reaping them all
\* and the job reports completed with aggregate status 0.  (Stated for a
\* shell with no other child.)
C8_ResumeRunsToCompletion ==
    /\ (ForegroundLaunchReturned /\ AllStopped)
         => JobIsStopped(process_) = 1 /\ JobIsCompleted(process_) = 0
    /\ (/\ pc = "idle"
        /\ lastCall = "resume"
        /\ Others = {}
        /\ \A s \in Stages : child[s].st \in {"zombie", "reaped"} /\ child[s].xs = ExitOk)
       => /\ \A s \in Stages : child[s].st = "reaped"
          /\ JobIsCompleted(process_) = 1
          /\ Status(process_) = 0

\* The launch loop is over: every stage is forked.
LoopDone == pc \notin {"start", "l_pipe", "l_fork", "l_parent", "exit1"}

\* The child has left LaunchProcess (it runs a program, has exited or threw).
Launched(s) == child[s].st \notin {"none", "c_setpgid", "c_tcsetpgrp", "c_exec"}

\* C3: in an interactive shell every process of the job is put in one group,
\* the pid of the first forked stage, by whichever of parent and child calls
\* setpgid first; until then it is in the shell's group.
C3_OneGroupPerJob ==
    interactive =>
      /\ pgid_ \in {0, child[0].pid}
      /\ \A s \in Stages :
           child[s].st # "none" =>
             /\ child[s].pgrp \in {ShellPid, child[0].pid}
             /\ (child[s].st # "c_setpgid" \/ process_[s].pid_ # 0)
                  => child[s].pgrp = child[0].pid

\* The child of the second stage has joined the group before the parent has
\* handled that stage.
C3_Witness ==
    /\ interactive
    /\ nproc >= 2
    /\ child[1].st \notin {"none", "c_setpgid"}
    /\ process_[1].pid_ = 0
    /\ child[1].pgrp = child[0].pid
    /\ child[1].pgrp # child[1].pid

\* C4: LaunchJob forks exactly nproc children in stage order and creates
\* nproc - 1 pipes; stage 0 reads job.stdin, the last stage writes job.stdout,
\* stage s writes the pipe stage s + 1 reads, and every stderr is job.stderr.
C4_PipelineWiring ==
    /\ LoopDone =>
         /\ npipes = nproc - 1
         /\ \A s \in Stages : child[s].st # "none" /\ process_[s].pid_ = child[s].pid
         /\ \A s \in Stages, t \in Stages : s < t => child[s].pid < child[t].pid
         /\ nextPid = child[0].pid + nproc
    /\ \A s \in Stages :
         Launched(s) =>
           /\ child[s].fds[STDIN_FILENO] =
                IF s = 0 THEN fds[stdin_] ELSE PipeRd(s - 1)
           /\ child[s].fds[STDOUT_FILENO] =
                IF s = nproc - 1 THEN fds[stdout_] ELSE PipeWr(s)
           /\ child[s].fds[STDERR_FILENO] = fds[stderr_]

\* Both stages of a pipeline with every channel redirected are launched.
C4_Witness ==
    /\ LoopDone
    /\ nproc = 2
    /\ stdin_ # STDIN_FILENO /\ stdout_ # STDOUT_FILENO /\ stderr_ # STDERR_FILENO
    /\ \A s \in Stages : Launched(s)
    /\ child[0].fds[STDOUT_FILENO] = PipeWr(0)
    /\ child[1].fds[STDIN_FILENO] = PipeRd(0)

IsPipeEnd(d) == d.k \in {"rd", "wr"}

\* C5: at the top of every iteration the shell holds of all pipes only the
\* read end the next stage is to read, and none once the loop is over; no
\* stage holds the write end of a pipe of an earlier stage.
C5_ParentClosesPipes ==
    /\ LoopDone => \A fd \in Fds : ~IsPipeEnd(fds[fd])
    /\ pc = "l_pipe" =>
         \A fd \in Fds : IsPipeEnd(fds[fd]) => fds[fd] = PipeRd(i - 1) /\ fd = infile
    /\ \A s \in Stages : \A fd \in Fds :
         child[s].fds[fd].k = "wr" => child[s].fds[fd].n = s

\* The loop of a pipeline is over, and the shell had pipes to close.
C5_Witness ==
    /\ pc = "l_mode"
    /\ nproc >= 2
    /\ npipes = nproc - 1
    /\ \A fd \in Fds : ~IsPipeEnd(fds[fd])

LaunchReturned == pc = "idle" /\ lastCall = "launch"

\* C6: once every stage is forked LaunchJob takes one of three ways.  Not
\* interactive: it waits, whatever foreground is, so a wait status has been
\* consumed, and it leaves the terminal alone.  Interactive and foreground: PutJobInForeground(0), which ends
\* by saving the terminal's modes in the job.  Interactive and background:
\* PutJobInBackground(0), which sends no signal and waits for nothing, so no
\* process is marked and the terminal and the job's saved modes are untouched.
C6_ModeDispatch ==
    LaunchReturned =>
      /\ cont = 0
      /\ ~interactive =>
           /\ called = "WaitForJob"
           /\ \/ \E s \in Stages : child[s].st \in {"reaped", "stopped"}
              \/ \E o \in Others : other[o] = "reaped"
           /\ shell_tmodes_ = Unset
           /\ ttyPgrp = ShellPid
           /\ contSent = 0
      /\ (interactive /\ foreground) =>
           /\ called = "PutJobInForeground"
           /\ shell_tmodes_ # Unset
           /\ contSent = 0
      /\ (interactive /\ ~foreground) =>
           /\ called = "PutJobInBackground"
           /\ contSent = 0
           /\ \A s \in Stages :
                /\ process_[s].completed_ = 0 /\ process_[s].stopped_ = 0
                /\ process_[s].status_ = 0
                /\ child[s].st # "reaped"
           /\ status_ = 0
           /\ shell_tmodes_ = Unset
           /\ ttyPgrp = ShellPid

\* A background launch has returned while a process of the job still runs.
C6_Witness ==
    /\ LaunchReturned
    /\ interactive /\ ~foreground
    /\ called = "PutJobInBackground"
    /\ \E s \in Stages : child[s].st = "running"

\* The pids a wait may report: none (-1, 0), the shell, its children, and one
\* pid that no process has.
PidInputs == (-1) .. nextPid

\* C7: wherever WaitForJob is to call it and whatever waitpid hands it,
\* MarkProcessStatus(pid, status) with pid > 0 and a process of the job of
\* that pid records the status there, sets stopped_ for a stop status and
\* completed_ otherwise, leaves every other field and process alone and
\* returns 0; with no such process or pid <= 0 it changes nothing and
\* returns -1.
C7_MarkProcessStatusFrame ==
    pc = "w_wait" =>
    \A p \in PidInputs : \A st \in WaitStatuses :
      LET m == MarkProcessStatus(process_, p, st)
          match == {s \in Stages : process_[s].pid_ = p}
      IN IF p > 0 /\ match # {}
           THEN /\ m.ret = 0
                /\ \E s \in match :
                     /\ m.procs[s].status_ = st
                     /\ m.procs[s].pid_ = p
                     /\ m.procs[s].stopped_ =
                          IF st % 256 = 127 THEN 1 ELSE process_[s].stopped_
                     /\ m.procs[s].completed_ =
                          IF st % 256 = 127 THEN process_[s].completed_ ELSE 1
                     /\ \A t \in Stages \ {s} : m.procs[t] = process_[t]
                /\ DOMAIN m.procs = DOMAIN process_
           ELSE m.ret = -1 /\ m.procs = process_

\* WaitForJob is to wait again for a job of which one process was marked
\* stopped and another completed.
C7_Witness ==
    /\ pc = "w_wait"
    /\ nproc >= 2
    /\ \E s \in Stages, t \in Stages :
         /\ process_[s].stopped_ = 1 /\ process_[s].completed_ = 0
         /\ process_[s].status_ = StopStatus
         /\ process_[t].completed_ = 1 /\ process_[t].stopped_ = 0
         /\ process_[t].status_ = ExitFail

\* The steps of PutJobInForeground that C9 is about.
SavesModes == pc = "fg_tcgetattr" /\ pc' = "fg_restore"
ReturnsFromForeground == pc = "fg_restore" /\ pc' = "idle"
InstallsModes == pc = "fg_tcsetattr" /\ pc' = "fg_kill"
SendsContinue == contSent' > contSent /\ ret = "fg"

\* C9: PutJobInForeground, once it has waited, stores the terminal's modes in
\* the job and then puts the shell's modes back, so it returns with the
\* shell's modes on the terminal; nothing else writes the job's saved modes;
\* with cont it installs the modes the job saved, with the terminal already
\* given to the job's group if that group still exists, and SIGCONT follows
\* only that step.
C9_TerminalModesRoundTrip ==
    /\ [][SavesModes => shell_tmodes_' = ttyModes /\ ttyModes' = ttyModes]_vars
    /\ [][ReturnsFromForeground =>
            ttyModes' = ShellModes /\ shell_tmodes_' = shell_tmodes_]_vars
    /\ [][shell_tmodes_' # shell_tmodes_ => SavesModes]_vars
    /\ [][(pc # "fg_restore" /\ pc' = "fg_restore") => SavesModes]_vars
    /\ [][InstallsModes =>
            /\ shell_tmodes_ # Unset => ttyModes' = shell_tmodes_
            /\ GroupExists(child, pgid_) => ttyPgrp = pgid_
            /\ contSent' = contSent]_vars
    /\ [][SendsContinue => pc = "fg_kill"]_vars
    /\ [][(pc # "fg_kill" /\ pc' = "fg_kill") => InstallsModes]_vars

\* A stopped job that left the terminal in its own modes is resumed, and has
\* them on the terminal again when SIGCONT is about to be sent.
C9_Witness ==
    /\ pc = "fg_kill"
    /\ lastCall = "resume"
    /\ shell_tmodes_ = "raw"
    /\ ttyModes = "raw"
    /\ ttyPgrp = pgid_

\* Bit b of x.
Bit(x, b) == (x \div (2 ^ b)) % 2

\* r is the bitwise OR of the statuses recorded in procs.
IsOrOfStatuses(r, procs) ==
    /\ r \in 0 .. 65535
    /\ \A b \in 0 .. 15 :
         Bit(r, b) = 1 <=> \E s \in DOMAIN procs : Bit(procs[s].status_, b) = 1

StatusCalled == opsLeft' # opsLeft /\ lastCall' = "status"

\* C10: Status() is the bitwise OR of the statuses recorded for the job's
\* processes, 0 exactly when each of them is 0, and a call of Status() hands
\* that value back and changes nothing of the job, its processes or the
\* terminal.
C10_StatusIsBitwiseOr ==
    /\ [](/\ IsOrOfStatuses(Status(process_), process_)
          /\ Status(process_) = 0 <=> \A s \in Stages : process_[s].status_ = 0)
    /\ [][StatusCalled =>
            /\ IsOrOfStatuses(statusRet', process_)
            /\ UNCHANGED <<jobVars, envVars, child, other, fds, ttyPgrp,
                           ttyModes, pc>>]_vars

\* Status() was called on a job with one process stopped and one that failed.
C10_Witness ==
    /\ lastCall = "status"
    /\ nproc >= 2
    /\ \E s \in Stages : process_[s].status_ = StopStatus
    /\ \E s \in Stages : process_[s].status_ = ExitFail
    /\ statusRet = 5503

\* exit(1) has ended the shell process (lines 228 and 245).
ShellExited == pc = "exit1"

\* C11: a pipe() or fork() that fails while a stage is launched ends the
\* command, not the shell: the shell process is still running afterwards
\* (with the pipes made so far closed and INVALID_COMMAND raised to the
\* evaluator), so it is never ended by the launch.
C11_LaunchFailureKeepsShell == ~ShellExited

\* execvp was attempted in the child of stage s: the program runs, or the
\* call failed and the exception was thrown (and has ended the child since).
TriedExecvp(s) ==
    \/ child[s].st \in {"running", "thrown"}
    \/ child[s].st = "zombie" /\ child[s].xs = ExitNotFound

Agree(a, b) == a.np = b.np /\ a.va = b.va
Compared == cmpRes.done

\* C17: an AbstractMethod equals another AbstractMethod, and equally a
\* FuncObject, iff num_params and variadic agree and, when the left-hand
\* method is variadic, num_default_params agrees too; operator!= is the
\* negation of operator==; the relation is reflexive and symmetric.
C17_AbstractMethodEquality ==
    Compared =>
      /\ cmpRes.eqAm = (Agree(cmpA, cmpB) /\ (cmpA.va => cmpA.nd = cmpB.nd))
      /\ cmpRes.eqFunc = cmpRes.eqAm
      /\ cmpRes.neAm = ~cmpRes.eqAm
      /\ cmpRes.neFunc = ~cmpRes.eqFunc
      /\ cmpRes.selfAm /\ cmpRes.selfFunc
      /\ cmpRes.revAm = cmpRes.eqAm
      /\ cmpRes.revFunc = cmpRes.eqFunc

\* Two non-variadic signatures that differ in their default parameters only.
C17_Witness ==
    /\ Compared
    /\ Agree(cmpA, cmpB) /\ ~cmpA.va /\ cmpA.nd # cmpB.nd
    /\ cmpRes.eqAm /\ cmpRes.eqFunc /\ ~cmpRes.neAm


Abstract(c) == ctype[c].abstract_methods_

\* The class c is constructed by this step.
Constructed(c) == ~ctype[c].made /\ ctype'[c].made

\* This step is a call of AddAbstractMethod on c that returns: the method
\* name is new to c's abstract methods and is added to them.
AddsAbstract(c) ==
    /\ res'.op = "AddAbstractMethod" /\ res'.who = c /\ res'.err = NoError
    /\ res'.name \notin DOMAIN Abstract(c)
    /\ DOMAIN ctype'[c].abstract_methods_ = DOMAIN Abstract(c) \cup {res'.name}
    /\ \A n \in DOMAIN Abstract(c) : ctype'[c].abstract_methods_[n] = Abstract(c)[n]

\* This step is a call of AddAbstractMethod on c with a name that c's
\* abstract methods hold already.
AddsDuplicate(c) ==
    /\ res'.op = "AddAbstractMethod" /\ res'.who = c
    /\ res'.name \in DOMAIN Abstract(c)
    /\ <<ctype, res>> # <<ctype', res'>>

\* C14: a class starts with a copy of the abstract methods of its base, its
\* abstract methods change only by a successful AddAbstractMethod on that
\* class, which adds one method under a new name, and AddAbstractMethod with
\* a name that the class holds, inherited or added, throws INCOMPATIBLE_TYPE
\* and changes nothing.
C14_AbstractMethodsAreInheritedPlusAdded ==
    [][\A c \in ClassIds :
         /\ Constructed(c) =>
              ctype'[c].abstract_methods_ =
                IF ctype'[c].base = NoBase THEN NoMethods
                ELSE Abstract(ctype'[c].base)
         /\ (ctype[c].made /\ ctype'[c].abstract_methods_ # Abstract(c)) =>
              AddsAbstract(c)
         /\ AddsDuplicate(c) =>
              res'.err = IncompatibleType /\ ctype' = ctype]_vars

\* B holds the method inherited from A and the one added to B, and the
\* inherited name has just been refused.
C14_Witness ==
    /\ ctype["B"].base = "A"
    /\ DOMAIN Abstract("A") = {"f"}
    /\ DOMAIN Abstract("B") = {"f", "__init__"}
    /\ res.op = "AddAbstractMethod" /\ res.who = "B" /\ res.name = "f"
    /\ res.err = IncompatibleType


\* The class and its bases, nearest first.
Mro(c) == IF ctype[c].base = NoBase THEN <<c>> ELSE <<c, ctype[c].base>>
Holders(c, name) ==
    {k \in DOMAIN Mro(c) : name \in DOMAIN ctype[Mro(c)[k]].attrs}
\* The attributes called name that the class or a base of it holds, the
\* nearest of them only.
Found(c, name) ==
    {ctype[Mro(c)[k]].attrs[name] :
       k \in {j \in Holders(c, name) : \A h \in Holders(c, name) : j <= h}}
Matches(m, func) == Agree(m, func) /\ (m.va => m.nd = func.nd)
Checked(op) == res.op = op /\ res.who \in ClassIds

\* C15: CheckAbstractMethodsCompatibility returns on an abstract class; on
\* another class it returns iff, for every abstract method of the class,
\* the class or one of its bases has an attribute of that name that is a
\* function whose signature matches, and throws INCOMPATIBLE_TYPE if not.
C15_AbstractMethodsImplemented ==
    Checked("CheckAbstractMethodsCompatibility") =>
      /\ res.err \in {NoError, IncompatibleType}
      /\ res.err = NoError <=>
           \/ ctype[res.who].abstract_
           \/ \A n \in DOMAIN Abstract(res.who) :
                \E a \in Found(res.who, n) :
                  a.type = "FUNC" /\ Matches(Abstract(res.who)[n], a.sig)

\* CheckAbstractMethodsCompatibility of B returns: its base A implements
\* the method that A declares abstract.
C15_Witness ==
    /\ Checked("CheckAbstractMethodsCompatibility")
    /\ res.who = "B" /\ res.err = NoError
    /\ ~ctype["B"].abstract_ /\ ctype["B"].base = "A"
    /\ "f" \in DOMAIN Abstract("B")
    /\ Holders("B", "f") = {2}


Methods(f) == iface[f].methods_
\* The interface methods that the class has to implement itself.
Required(c) ==
    {<<f, n>> \in IfaceIds \X Names :
       /\ \E k \in DOMAIN ctype[c].ifaces : ctype[c].ifaces[k] = f
       /\ n \in DOMAIN Methods(f)
       /\ ~(n \in DOMAIN Abstract(c) /\ Matches(Abstract(c)[n], Methods(f)[n]))}
\* Every required method has some function of its name in the class.
AllDefined(c) ==
    \A r \in Required(c) : \E a \in Found(c, r[2]) : a.type = "FUNC"

\* C16, default parameters never compared: when every interface method has
\* an implementing function, CheckInterfaceCompatibility returns iff every
\* such pair agrees on num_params and variadic, whatever the
\* default-parameter counts.
C16_ConformsOnParamsAndVariadic ==
    (Checked("CheckInterfaceCompatibility") /\ AllDefined(res.who)) =>
      (res.err = NoError <=>
         \A r \in Required(res.who) : \E a \in Found(res.who, r[2]) :
           Agree(Methods(r[1])[r[2]], a.sig))

\* C16, default parameters compared for variadic methods:
\* CheckInterfaceCompatibility returns iff every interface method that the class does not declare abstract with an equal signature
\* has a function of its name, on the class or a base, that agrees with it
\* on num_params and variadic and, when the interface method is variadic,
\* on num_default_params as well; if not it throws INCOMPATIBLE_TYPE.
C16_ConformsOnSignature ==
    Checked("CheckInterfaceCompatibility") =>
      /\ res.err \in {NoError, IncompatibleType}
      /\ res.err = NoError <=>
           \A r \in Required(res.who) : \E a \in Found(res.who, r[2]) :
             a.type = "FUNC" /\ Matches(Methods(r[1])[r[2]], a.sig)

\* A variadic interface method and a function that differ in their default
\* parameters only: the class is refused.
C16_Witness ==
    /\ Checked("CheckInterfaceCompatibility")
    /\ res.err = IncompatibleType
    /\ Required(res.who) # {}
    /\ \A r \in Required(res.who) : \E a \in Found(res.who, r[2]) :
         /\ a.type = "FUNC"
         /\ Agree(Methods(r[1])[r[2]], a.sig)
         /\ Methods(r[1])[r[2]].va
         /\ Methods(r[1])[r[2]].nd # a.sig.nd


Instantiated == res.op = "Constructor"
\* The type on which Constructor was called must not be instantiated.
NotInstantiable ==
    IF res.who \in ClassIds THEN ctype[res.who].abstract_
    ELSE res.who \in IfaceIds

\* C18: Constructor of an abstract class and of an interface throws
\* INCOMPATIBLE_TYPE whatever the arguments, allocates no declared object,
\* returns none and does not call __init__.
C18_NoInstanceOfAbstractOrInterface ==
    (Instantiated /\ NotInstantiable) =>
      /\ res.err = IncompatibleType
      /\ res.alloc = 0
      /\ res.ret = "none"
      /\ res.calls = <<>>

\* An abstract class that declares a function __init__ is called with
\* arguments.
C18_Witness ==
    /\ Instantiated /\ res.who = "A" /\ ctype["A"].abstract_
    /\ "__init__" \in DOMAIN ctype["A"].attrs
    /\ ctype["A"].attrs["__init__"].type = "FUNC"
    /\ res.args = <<"x", "y">>
    /\ res.err = IncompatibleType

Instantiable == res.who \in ClassIds /\ ~NotInstantiable
InitIsFunction ==
    /\ "__init__" \in DOMAIN ctype[res.who].attrs
    /\ ctype[res.who].attrs["__init__"].type = "FUNC"

\* C19: Constructor of a class that is not abstract allocates one object;
\* iff the class's symbol __init__ exists and is a function it calls that
\* function, once, with the new object followed by the caller's arguments
\* in their order; and unless __init__ throws it returns the new object,
\* whatever __init__ returned.
C19_ConstructorCallsInitWithSelfFirst ==
    (Instantiated /\ Instantiable) =>
      /\ res.alloc = 1
      /\ InitIsFunction => res.calls = << <<"obj_self">> \o res.args >>
      /\ ~InitIsFunction => res.calls = <<>> /\ res.initRet = "none"
      /\ res.initRet # "throws" => res.err = NoError /\ res.ret = "obj_self"
      /\ res.initRet = "throws" => res.err = "RunTimeError"

\* __init__ was called with two arguments of the caller and returned a
\* value other than the object.
C19_Witness ==
    /\ Instantiated /\ Instantiable
    /\ res.args = <<"x", "y">>
    /\ res.calls = << <<"obj_self", "x", "y">> >>
    /\ res.initRet = "value"
    /\ res.ret = "obj_self"


\* Some name is in the methods of two of the base interfaces ifs, counted
\* by position.
ContributedTwice(ifs) ==
    \E j \in DOMAIN ifs, k \in DOMAIN ifs :
      j < k /\ DOMAIN Methods(ifs[j]) \cap DOMAIN Methods(ifs[k]) # {}
IsUnionOfBases(m, ifs) ==
    /\ DOMAIN m = UNION {DOMAIN Methods(ifs[k]) : k \in DOMAIN ifs}
    /\ \A k \in DOMAIN ifs : \A n \in DOMAIN Methods(ifs[k]) :
         m[n] = Methods(ifs[k])[n]
\* This step is a call of AddMethod on f that returns.
AddsMethod(f) ==
    /\ res'.op = "AddMethod" /\ res'.who = f /\ res'.err = NoError
    /\ res'.name \notin DOMAIN Methods(f)
    /\ DOMAIN iface'[f].methods_ = DOMAIN Methods(f) \cup {res'.name}
    /\ \A n \in DOMAIN Methods(f) : iface'[f].methods_[n] = Methods(f)[n]
\* This step is a call of AddMethod on f with a name that f holds.
AddsPresent(f) ==
    /\ res'.op = "AddMethod" /\ res'.who = f
    /\ res'.name \in DOMAIN Methods(f)
    /\ <<iface, res>> # <<iface', res'>>

\* C20: the constructor of an interface throws INCOMPATIBLE_TYPE iff two of
\* its base interfaces contribute the same name, and else leaves the union
\* of their methods; afterwards the methods change only by an AddMethod
\* that returns and adds one method under a new name; AddMethod with a name
\* that is present throws INCOMPATIBLE_TYPE and changes nothing.
C20_InterfaceMethodsAreUnion ==
    /\ [](res.op = "DeclInterface" =>
            /\ res.err = IncompatibleType <=> ContributedTwice(res.args)
            /\ res.err = IncompatibleType => ~iface[res.who].made
            /\ res.err = NoError =>
                 /\ iface[res.who].made
                 /\ IsUnionOfBases(Methods(res.who), res.args))
    /\ [][\A f \in IfaceIds :
            /\ iface'[f].made # iface[f].made =>
                 res'.op = "DeclInterface" /\ res'.who = f
            /\ (iface[f].made /\ iface'[f] # iface[f]) => AddsMethod(f)
            /\ AddsPresent(f) =>
                 res'.err = IncompatibleType /\ iface' = iface]_vars

\* K names I both directly and through J, and I has a method.
C20_Witness ==
    /\ res.op = "DeclInterface" /\ res.who = "K"
    /\ res.args = <<"I", "J">>
    /\ iface["J"].bases = <<"I">>
    /\ Methods("I") # NoMethods
    /\ res.err = IncompatibleType
    /\ ~iface["K"].made


\* ----------------------------------------- properties of declared objects
Accessed == res.op = "Attr"
OwnValue == inst[res.who].scope[res.name]
InOwnScope == Accessed /\ res.name \in DOMAIN inst[res.who].scope

\* C21: when the object's own scope holds the name, Attr returns a wrapper
\* that binds self to the function stored there if the value is a function,
\* whatever the type scope holds under that name, and the stored value
\* itself if it is not a function.
C21_OwnScopeFirst ==
    InOwnScope =>
      /\ res.err = NoError
      /\ res.of = <<res.who, res.name>>
      /\ IF OwnValue.type = "FUNC"
           THEN res.ret = "wrapper" /\ res.self = res.who
           ELSE res.ret = "object"


InTypeScope ==
    /\ Accessed
    /\ res.name \notin DOMAIN inst[res.who].scope
    /\ Holders(inst[res.who].cls, res.name) # {}
\* The nearest class of the object's type and its bases that holds the name.
HolderClass ==
    Mro(inst[res.who].cls)[
      CHOOSE k \in Holders(inst[res.who].cls, res.name) :
        \A h \in Holders(inst[res.who].cls, res.name) : k <= h]
TypeValue == ctype[HolderClass].attrs[res.name]
ReturnsWrapper ==
    /\ res.err = NoError /\ res.ret = "wrapper"
    /\ res.of = <<HolderClass, res.name>> /\ res.self = res.who
ReturnsUnchanged ==
    /\ res.err = NoError /\ res.ret = "object"
    /\ res.of = <<HolderClass, res.name>>
RaisesIncompatible == res.err = IncompatibleType /\ res.ret = "none"

\* C22, every function wrapped: for a name that the object's scope does not
\* hold and the type or a base holds, Attr throws INCOMPATIBLE_TYPE if the
\* value is a static function, returns a wrapper binding self if it is any
\* other function, and returns the value unchanged if it is no function.
C22_TypeFunctionsWrapped ==
    InTypeScope =>
      IF TypeValue.type # "FUNC" THEN ReturnsUnchanged
      ELSE IF TypeValue.static THEN RaisesIncompatible
      ELSE ReturnsWrapper

\* C22, declared functions wrapped: as above, but a function that is not
\* declared in the language is returned unchanged, without a wrapper.
C22_DeclaredFunctionsWrapped ==
    InTypeScope =>
      IF TypeValue.type # "FUNC" THEN ReturnsUnchanged
      ELSE IF ~TypeValue.declared THEN ReturnsUnchanged
      ELSE IF TypeValue.static THEN RaisesIncompatible
      ELSE ReturnsWrapper

\* An object of B reads a method that only the base A declares.
C22_Witness ==
    /\ InTypeScope
    /\ inst[res.who].cls = "B" /\ HolderClass = "A"
    /\ TypeValue = MethodFunc
    /\ ReturnsWrapper


Assigns == res'.op = "AttrAssign"
OwnScopeKept == \A o \in InstIds : inst[o].made => inst[o].tables = 1
Dunder(op) ==
    CASE op = "Call"      -> "__call__"
      [] op = "Add"       -> "__add__"
      [] op = "Print"     -> "__print__"
      [] op = "Len"       -> "__len__"
      [] op = "Hash"      -> "__hash__"
      [] op = "ObjBool"   -> "__bool__"
      [] op = "ObjString" -> "__str__"
Dispatched == res.op \in {"Call", "Add", "Print", "Len", "Hash", "ObjBool",
                          "ObjString"}
\* The name is resolved by the type of the object the operator acts on.
OnType == Dunder(res.op) \in DOMAIN TypeScope(res.who)
TypeFunction == OnType /\ TypeScope(res.who)[Dunder(res.op)].type = "FUNC"
\* The function of the type was the one called, once, with self first.
CalledTypeFunction ==
    /\ res.of = <<inst[res.who].cls, Dunder(res.op)>>
    /\ Len(res.calls) = 1
    /\ Head(res.calls[1]) = res.who

\* C24: an operator applied to a declared object looks its name up in the
\* scope of the type whatever the object's own scope holds under that name:
\* if the type holds a non-function the operator throws INCOMPATIBLE_TYPE
\* and calls nothing; if the type holds a function that function is called
\* once with self as its first argument; a function that only the object's
\* scope holds is never called.
C24_DispatchOnTypeScope ==
    Dispatched =>
      /\ (OnType /\ ~TypeFunction) =>
           res.err = IncompatibleType /\ res.calls = <<>>
      /\ TypeFunction => CalledTypeFunction
      /\ ~OnType => res.calls = <<>> /\ res.err # NoError

\* x + y where the class declares __add__ and x itself holds a value that is
\* no function under __add__: the function of the class is called with
\* (x, y).
C24_Witness ==
    /\ res.op = "Add"
    /\ "__add__" \in DOMAIN inst[res.who].scope
    /\ inst[res.who].scope["__add__"].type # "FUNC"
    /\ TypeFunction
    /\ res.calls = << <<res.who, "y">> >>
    /\ res.err = NoError

Returns(kind) == res.err = NoError /\ res.ret = kind /\ res.fret = kind
Refuses == res.err = IncompatibleType /\ res.ret = "none"
\* The function of the operator has been called and has returned.
FunctionReturned == Dispatched /\ TypeFunction /\ res.fret \in Kinds

\* C25: what the function of a conversion operator returns is tested:
\* __print__ and __str__ give their caller a STRING and __len__ and __hash__
\* an INT, a result of any other kind throws INCOMPATIBLE_TYPE and is not
\* returned; __bool__ returns a result of any kind.
C25_ResultKindEnforced ==
    FunctionReturned =>
      /\ res.op \in {"Print", "ObjString"} =>
           IF res.fret = "STRING" THEN Returns("STRING") ELSE Refuses
      /\ res.op \in {"Len", "Hash"} =>
           IF res.fret = "INT" THEN Returns("INT") ELSE Refuses
      /\ res.op = "ObjBool" => Returns(res.fret)


\* -------------------------------------------- properties of identifier reads
Scalars == {"INT", "REAL", "BOOL", "STRING", "NULL"}
ScalarBound == heap[Bound].kind \in Scalars
HasRead(s) == handle[s] # NoObject
\* Every read of a scalar holds an object of its own; every read of another
\* object holds the object of the symbol table.
ReadIdentity ==
    \A s \in Slots :
      HasRead(s) =>
        IF ScalarBound
          THEN /\ handle[s] # Bound
               /\ \A t \in Slots \ {s} : handle[t] # handle[s]
          ELSE handle[s] = Bound
\* A read returns an object equal to the one bound, which it leaves as it is,
\* as it leaves what the other read returned.
ReadStep ==
    res'.op = "ExecIdentifier" =>
      /\ heap'[handle'[res'.who]] = heap[Bound]
      /\ heap'[Bound] = heap[Bound]
      /\ \A t \in Slots \ {res'.who} :
           /\ handle'[t] = handle[t]
           /\ HasRead(t) => heap'[handle[t]] = heap[handle[t]]
\* A change through what a read returned: of a scalar, it changes neither
\* the object bound nor what the other read returned; of another object, it
\* is seen through the symbol table and through every read.
MutateStep ==
    res'.op = "Mutate" =>
      /\ handle' = handle
      /\ heap'[handle[res'.who]].val = heap[handle[res'.who]].val + 1
      /\ IF ScalarBound
           THEN /\ heap'[Bound] = heap[Bound]
                /\ \A t \in Slots \ {res'.who} :
                     HasRead(t) => heap'[handle[t]] = heap[handle[t]]
           ELSE /\ heap'[Bound].val = heap[Bound].val + 1
                /\ \A t \in Slots :
                     HasRead(t) => heap'[handle[t]] = heap'[Bound]

\* C26: reading a name through an identifier yields a copy of its own
\* identity exactly when the object bound is an INT, REAL, BOOL, STRING or
\* NULL, and the object of the symbol table otherwise: a read gives a value
\* equal to the one bound; a change of a scalar through one read changes
\* neither the other read's object nor the symbol-table entry; a change of
\* any other object through one read is seen through the other.
C26_ScalarsCopiedOthersShared ==
    /\ []ReadIdentity
    /\ [][ReadStep /\ MutateStep]_vars

\* An INT read twice and changed through the second read: the two objects
\* now differ in value and the one of the symbol table is as it was read.
C26_Witness ==
    /\ res.op = "Mutate" /\ res.who = "r2"
    /\ heap[Bound].kind = "INT"
    /\ HasRead("r1") /\ HasRead("r2")
    /\ heap[handle["r1"]] = heap[Bound]
    /\ heap[handle["r2"]].val = heap[Bound].val + 1


\* ----------------------------------------- properties of deferred statements
Reverse(s) == [k \in 1 .. Len(s) |-> s[Len(s) + 1 - k]]
\* The positions, in the order dk .. d1, of the statements that throw.
Throwers == {k \in 1 .. Len(pushed) : Reverse(pushed)[k].throws}
\* dk .. d1 up to the first statement that throws, or all of them.
UntilThrow ==
    IF Throwers = {} THEN Reverse(pushed)
    ELSE SubSeq(Reverse(pushed), 1,
                CHOOSE k \in Throwers : \A j \in Throwers : k <= j)
DrainedOnce == [][executed_defer_ => ran' = ran]_vars

\* C27, every exit: once the defer stack of a scope has been drained, on
\* any exit path, the statements d1..dk deferred in that order have run in
\* the order dk..d1, each exactly once; before, none has run; draining
\* again runs nothing.
C27_AllDefersRunInReverse ==
    /\ [](IF executed_defer_ THEN ran = Reverse(pushed) ELSE ran = <<>>)
    /\ DrainedOnce

\* C27, until a throw: as above, but a deferred statement that throws ends
\* the drain: the statements run are dk..dj where dj is the first of them
\* that throws, each once, and dj-1..d1 never run; if none throws all of
\* dk..d1 run.
C27_DefersRunInReverseUntilThrow ==
    /\ [](IF executed_defer_ THEN ran = UntilThrow ELSE ran = <<>>)
    /\ DrainedOnce

\* A scope left by a throw with three deferred statements, none of which
\* throws: the first drain ran d3, d2, d1 and the drain just made ran none.
C27_Witness ==
    /\ scope = "throw"
    /\ Len(pushed) = 3 /\ Throwers = {}
    /\ executed_defer_
    /\ [k \in 1 .. 3 |-> ran[k].id] = <<3, 2, 1>>
    /\ res.op = "ExecuteDeferStack" /\ res.calls = <<>>


\* C28: a stage that has reached execvp, or runs its builtin, holds no pipe
\* end but the ones that are its standard input and standard output: not
\* the read end of the pipe it writes to, and no end of another pipe.
C28_StageHoldsOnlyOwnPipeEnds ==
    \A s \in Stages :
      Launched(s) =>
        \A fd \in Fds :
          IsPipeEnd(child[s].fds[fd]) => fd \in {STDIN_FILENO, STDOUT_FILENO}


\* ------------------------------------------ properties of AddAbstractMethod
AddCalled(c) ==
    /\ res'.op = "AddAbstractMethod" /\ res'.who = c
    /\ <<ctype, res, membersLeft>> # <<ctype', res', membersLeft'>>
\* The three cases in which AddAbstractMethod refuses the name.
NotAbstractClass(c) == ~ctype[c].abstract_
AlreadyAbstract(c, name) == name \in DOMAIN Abstract(c)
AlreadyAttribute(c, name) == Holders(c, name) # {}

\* C29: a call of AddAbstractMethod(name, m) on a class throws
\* INCOMPATIBLE_TYPE exactly when the class is not abstract, or name is one
\* of its abstract methods, inherited or its own, or name is an attribute
\* of the class; a call that throws leaves the abstract methods of every
\* class as they were, and a call that returns adds the entry name -> m to
\* the abstract methods of the class and changes nothing else.
C29_AddAbstractMethodRejections ==
    [][\A c \in ClassIds :
         AddCalled(c) =>
           /\ res'.err \in {NoError, IncompatibleType}
           /\ res'.err = IncompatibleType <=>
                \/ NotAbstractClass(c)
                \/ AlreadyAbstract(c, res'.name)
                \/ AlreadyAttribute(c, res'.name)
           /\ res'.err = IncompatibleType => ctype' = ctype
           /\ res'.err = NoError =>
                /\ Len(res'.args) = 1
                /\ ctype' = [ctype EXCEPT ![c].abstract_methods_ =
                               [n \in DOMAIN @ \cup {res'.name} |->
                                  IF n = res'.name THEN res'.args[1]
                                  ELSE @[n]]]]_vars

\* The abstract class A holds the attribute f, and AddAbstractMethod("f")
\* on it has just been refused although f is no abstract method of A.
C29_Witness ==
    /\ res.op = "AddAbstractMethod" /\ res.who = "A" /\ res.name = "f"
    /\ res.err = IncompatibleType
    /\ ctype["A"].abstract_
    /\ "f" \notin DOMAIN Abstract("A")
    /\ "f" \in DOMAIN ctype["A"].attrs
    /\ "__init__" \in DOMAIN Abstract("A")


\* ------------------------------------------ properties of the process flags
\* The flags of a process that are set stay set over this step.
FlagsKept(s) ==
    /\ process_[s].completed_ # 0 => process_'[s].completed_ # 0
    /\ process_[s].stopped_ # 0 => process_'[s].stopped_ # 0
\* pid_ changes over this step only from its initial 0 to the pid of the
\* child just forked for the stage, in the parent's branch of the loop.
PidWrittenAtFork(s) ==
    process_'[s].pid_ # process_[s].pid_ =>
      /\ pc = "l_parent" /\ i = s
      /\ process_[s].pid_ = 0
      /\ process_'[s].pid_ = child[s].pid
      /\ child[s].pid # 0

\* C30: whenever JobIsCompleted() is true JobIsStopped() is true; a
\* completed_ or stopped_ flag that is set is never cleared by any step of
\* the job; and pid_ of a process is written once, by the parent right
\* after the fork of its stage, and holds the child's pid from then on.
C30_CompletedImpliesStoppedFlagsMonotone ==
    /\ [](JobIsCompleted(process_) = 1 => JobIsStopped(process_) = 1)
    /\ [](LoopDone => \A s \in Stages : process_[s].pid_ = child[s].pid)
    /\ [][\A s \in Stages : FlagsKept(s) /\ PidWrittenAtFork(s)]_vars

\* A job whose processes have all completed, one of them after it had been
\* stopped and continued: its stopped_ flag is still set.
C30_Witness ==
    /\ JobIsCompleted(process_) = 1
    /\ JobIsStopped(process_) = 1
    /\ \E s \in Stages :
         process_[s].stopped_ # 0 /\ process_[s].completed_ # 0
    /\ \A s \in Stages : process_[s].pid_ = child[s].pid

=============================================================================
